---- MODULE Spec2Model ----
(***************************************************************************)
(* Verification model of the git-ci pipeline execution engine:             *)
(*   - the process backend (BashRunner.RunJob / RunStep / executeWithRetry) *)
(*     driven by runJobsSequential for one selected job        (SpecJob)    *)
(*   - the job graph validator (validatePipeline,                           *)
(*     checkCircularDependencies)                              (SpecValidate)*)
(*   - the parallel scheduler (runJobsParallel)                (SpecPar,    *)
(*     with fair scheduling of its goroutines                   SpecParLive)*)
(*   - image resolution of the containerized backend                        *)
(*     (DockerRunner.getImageName)                             (SpecImage)  *)
(*   - the environment the process backend hands to a step                  *)
(*     (mergeEnvironments, buildStepEnvironment)               (SpecEnv)    *)
(*   - the sequential scheduler over several jobs                           *)
(*     (runJobsSequential)                                     (SpecSeq)    *)
(*   - both schedulers given the same jobs and backend results (SpecSched)  *)
(***************************************************************************)
EXTENDS Integers, Sequences, FiniteSets, TLC

(* ------------------------------ bounds --------------------------------- *)
\* longest step list of a multi-step job
MaxSteps == 2
\* largest retry.max_attempts drawn for a step
MaxAttemptsBound == 3
\* config.DefaultConfig().Timeout, minutes
DefaultTimeout == 30

VARIABLES
    \* ---- process backend, one job under runJobsSequential ----
    config,          \* RunnerConfig: [DryRun, Timeout]
    steps,           \* job.Steps
    allowFailure,    \* job.AllowFailure
    continueOnError, \* c.Bool("continue-on-error")
    workdirOK,       \* filepath.Abs / os.Stat succeed on the workdir
    pc,              \* position of the sequential run
    idx,             \* stepNum of the step loop (i + 1)
    attempt,         \* attempt counter of the execution in progress
    stepErr,         \* error returned by RunStep ("nil" = no error)
    summary,         \* JobSummary
    runJobErr,       \* error returned by RunJob ("nil" = no error)
    successCount,    \* runJobsSequential counters
    failureCount,
    seqResult,       \* value returned by runJobsSequential
    trace,           \* observable events of the run, in order
    \* ---- job graph validator ----
    needsOf,         \* pipeline.Jobs: job name -> job.Needs
    vpc,             \* position of validatePipeline
    vTodo,           \* jobs the range loop has not visited yet
    vErrors,         \* the errors collected so far
    \* ---- parallel scheduler ----
    pJobs,           \* the selected jobs
    pMaxParallel,    \* c.Int("max-parallel")
    pContinue,       \* c.Bool("continue-on-error")
    mpc,             \* position of runJobsParallel's own goroutine
    wpc,             \* position of each job's goroutine
    wErr,            \* the error RunJob returned to each goroutine
    sem,             \* number of tokens in the semaphore channel
    wg,              \* the WaitGroup counter
    results,         \* the buffered results channel
    closed,          \* the results channel is closed
    pSuccess,        \* successCount
    pFailure,        \* failureCount
    firstError,      \* firstError ("nil" = none)
    parResult,       \* value returned by runJobsParallel
    pWarned,         \* a goroutine has printed a "cleanup failed" warning
    pCollected,      \* per job, the results the collecting loop has read
    pCleanups,       \* per job, the calls of runner.Cleanup
    \* ---- containerized backend: image resolution ----
    dJob,            \* the job: [Container, Image, RunsOn]
    dImage,          \* the value getImageName returned
    dpc,             \* position of the resolution
    \* ---- sequential scheduler over the selected jobs ----
    sJobs,           \* the selected jobs: name -> [AllowFailure, ContinueOnErr]
    sContinue,       \* c.Bool("continue-on-error")
    spc,             \* position of runJobsSequential
    sTodo,           \* jobs the range loop has not visited yet
    sCur,            \* jobName of the iteration in progress (0 = none)
    sErr,            \* err of the iteration in progress
    sOut,            \* per job, what createRunner / RunJob returned ("none" = not called)
    sWarned,         \* a "cleanup failed" warning has been printed
    sSuccess,        \* successCount
    sFailure,        \* failureCount
    sResult,         \* value returned by runJobsSequential
    sLog,            \* the calls made, in order
    \* ---- process backend: environment of a step ----
    eLayers,         \* the maps given: [os, pipeline, job, cli, step]
    eRunnerEnv,      \* r.environment
    eJobEnv,         \* jobEnv of RunJob
    eCmdEnv,         \* cmd.Env: list of <<key, value>>
    epc,             \* position: RunJob's setup, then RunStep
    \* ---- the run command ----
    rPipe,           \* the pipeline of the workflow file: [Needs, Stage, Shape]
    rFlags,          \* the command line: [job, stage, only, except]
    rpc,             \* position of CmdRun
    rErrors,         \* the errors Validate collected
    rSel,            \* jobs: what selectJobsToRun returned
    rMode,           \* the scheduler CmdRun handed the jobs to
    rAsked,          \* jobs createRunner was called for
    rCreated,        \* jobs whose backend was created
    rRan,            \* jobs whose RunJob was called
    rResult,         \* value returned by CmdRun
    \* ---- containerized backend: one DockerRunner and its containers ----
    kConfig,         \* r.config: [DryRun, PullImages]
    kpc,             \* position of the call in progress on the instance
    kRuns,           \* RunJob calls made on the instance
    kPhase,          \* the lifecycle phases of the RunJob in progress or last made
    kRet,            \* value returned by the last RunJob
    kContainers,     \* r.containers
    kBorn,           \* per container created, the Cleanup calls made before it
    kStop,           \* per container, the Cleanup call that tried to stop it (0 = none)
    kRemove,         \* per container, the removal tried: [at, force, ok]
    kCleans,         \* Cleanup calls made on the instance
    kTodo,           \* containersToRemove not yet visited
    kErrs,           \* len(errors) of the Cleanup in progress
    kCleanRet,       \* value returned by the last Cleanup
    \* ---- containerized backend: the generated script and its shell ----
    bJob,            \* the job: [Steps]
    bVerbose,        \* r.config.Verbose
    bpc,             \* position: build, then the container's /bin/sh -c
    bScript,         \* commands: the lines joined by "\n"
    bLine,           \* the line the shell reads next
    bEnv,            \* the exported variables of the shell
    bOut,            \* the step commands the shell ran: [step, env, code]
    bExit,           \* exit status of the shell ("running" until it exits)
    \* ---- job name patterns ----
    mName,           \* name
    mPattern,        \* pattern
    mMatch,          \* value returned by matchPattern
    mpcall,          \* position of the call
    \* ---- the parsers: from the steps of a workflow file to pipeline steps ----
    qKind,           \* the parser: "github" or "gitlab"
    qDoc,            \* the one job of the decoded file
    qpc,             \* position of Parse
    qSteps,          \* job.Steps of the converted pipeline
    qRet,            \* what Parse returned: "running", "error" or "pipeline"
    \* ---- process backend: one executeCommand and its subprocess ----
    oEmit,           \* per stream, the lines the subprocess writes: their sizes
    oSent,           \* per stream, the lines the subprocess has written
    oPipe,           \* per stream, the lines in the pipe: <<stream, number, size>>
    oExited,         \* the subprocess has exited, closing both streams
    oReader,         \* per stream, position of its streamOutput goroutine
    oBuf,            \* per stream, the capture buffer
    oWriters,        \* per capture buffer, the goroutines that wrote to it
    oConsole,        \* the lines printed, in order
    opc,             \* position of executeCommand
    oRet,            \* value returned by executeCommand
    \* ---- process backend: RunStep on one shell-command step ----
    tStep,           \* the step: [Run, WorkingDir, TimeoutMin, RetryPolicy]
    tpc,             \* position of RunStep
    tCmd,            \* cmd: [Dir, Ctx]
    tAttempt,        \* attempt of executeWithRetry's loop
    tLastErr,        \* lastErr of executeWithRetry
    tErrs,           \* the errors executeCommand returned, in order
    tDirs,           \* the working directory of each subprocess spawned, in order
    tRet,            \* value returned by RunStep
    \* ---- the GitLab parser: include directives ----
    iBuilt,          \* how the parser value was built
    iCache,          \* p.includeCache: [made, paths]
    iFiles,          \* per path, the included file: "missing", "invalid" or "valid"
    iIncludes,       \* the include entries of the file, in order
    iNext,           \* the entry processIncludes passes to includeFile next
    iMerged,         \* the paths merged into the pipeline, in order
    ipc,             \* position of processIncludes
    iRet             \* how processIncludes ended

jobVars == <<config, steps, allowFailure, continueOnError, workdirOK, pc, idx,
             attempt, stepErr, summary, runJobErr, successCount, failureCount,
             seqResult, trace>>

valVars == <<needsOf, vpc, vTodo, vErrors>>

parVars == <<pJobs, pMaxParallel, pContinue, mpc, wpc, wErr, sem, wg, results, closed,
             pSuccess, pFailure, firstError, parResult, pWarned, pCollected, pCleanups>>

imgVars == <<dJob, dImage, dpc>>

schedVars == <<sJobs, sContinue, spc, sTodo, sCur, sErr, sOut, sWarned, sSuccess, sFailure,
               sResult, sLog>>

envVars == <<eLayers, eRunnerEnv, eJobEnv, eCmdEnv, epc>>

runVars == <<rPipe, rFlags, rpc, rErrors, rSel, rMode, rAsked, rCreated, rRan, rResult>>

\* the groups added for the run command and the containerized backend
dockVars == <<kConfig, kpc, kRuns, kPhase, kRet, kContainers, kBorn, kStop, kRemove, kCleans,
              kTodo, kErrs, kCleanRet>>

scriptVars == <<bJob, bVerbose, bpc, bScript, bLine, bEnv, bOut, bExit>>

matchVars == <<mName, mPattern, mMatch, mpcall>>

\* the groups added for the parsers and the execution of one command
convVars == <<qKind, qDoc, qpc, qSteps, qRet>>

streamVars == <<oEmit, oSent, oPipe, oExited, oReader, oBuf, oWriters, oConsole, opc, oRet>>

stepVars == <<tStep, tpc, tCmd, tAttempt, tLastErr, tErrs, tDirs, tRet>>

inclVars == <<iBuilt, iCache, iFiles, iIncludes, iNext, iMerged, ipc, iRet>>

auxVars == <<convVars, streamVars, stepVars, inclVars>>

extVars == <<runVars, dockVars, scriptVars, matchVars, auxVars>>

vars == <<jobVars, valVars, parVars, imgVars, schedVars, envVars, extVars>>

otherThanJob == <<valVars, parVars, imgVars, schedVars, envVars, extVars>>
otherThanVal == <<jobVars, parVars, imgVars, schedVars, envVars, extVars>>
otherThanPar == <<jobVars, valVars, imgVars, schedVars, envVars, extVars>>
otherThanImg == <<jobVars, valVars, parVars, schedVars, envVars, extVars>>
otherThanSeq == <<jobVars, valVars, parVars, imgVars, envVars, extVars>>
otherThanEnv == <<jobVars, valVars, parVars, imgVars, schedVars, extVars>>
coreVars == <<jobVars, valVars, parVars, imgVars, schedVars, envVars>>
otherThanRun == <<coreVars, dockVars, scriptVars, matchVars, auxVars>>
otherThanDock == <<coreVars, runVars, scriptVars, matchVars, auxVars>>
otherThanScript == <<coreVars, runVars, dockVars, matchVars, auxVars>>
otherThanMatch == <<coreVars, runVars, dockVars, scriptVars, auxVars>>
baseVars == <<coreVars, runVars, dockVars, scriptVars, matchVars>>
otherThanConv == <<baseVars, streamVars, stepVars, inclVars>>
otherThanStream == <<baseVars, convVars, stepVars, inclVars>>
otherThanStep == <<baseVars, convVars, streamVars, inclVars>>
otherThanIncl == <<baseVars, convVars, streamVars, stepVars>>

(* ---------------------------- pipeline model --------------------------- *)
\* a *RetryPolicy is <<>> (nil) or <<p>>
Guards == {"", "always()", "success()", "failure()", "cancelled()", "github.ref == 'main'"}
Delays == {"", "1s", "soon"}
\* step.Uses split at "@": <<>> is the empty string
UsesRefs == {<<>>, <<"actions/checkout", "v4">>, <<"actions/setup-go">>, <<"vendor/other", "v1">>}
RetryPolicies ==
    {<<>>} \cup {<<[MaxAttempts |-> m, Delay |-> d]>> : m \in 0..MaxAttemptsBound, d \in Delays}

\* every step shape, for single-step jobs
AllSteps ==
    [If : Guards, ContinueOnErr : BOOLEAN, Uses : UsesRefs, Run : {"", "make test"},
     RetryPolicy : RetryPolicies, TimeoutMin : {0, 5}]

\* shell-command steps, for multi-step jobs
CommandSteps ==
    [If : {"", "failure()"}, ContinueOnErr : BOOLEAN, Uses : {<<>>}, Run : {"make test"},
     RetryPolicy : {<<>>, <<[MaxAttempts |-> 2, Delay |-> "1s"]>>}, TimeoutMin : {0}]

SeqsOf(S, lo, hi) == UNION {[1..n -> S] : n \in lo..hi}

\* time.ParseDuration accepts the string
ParseDurationOK(d) == d \in {"1s"}

(* ------------------------- BashRunner helpers -------------------------- *)
\* variant: only the failure() token is false
shouldRunStep_FailureOnly(step) == step.If # "failure()"

\* variant: a guard that is no known literal keeps the step from running
shouldRunStep_UnknownSkips(step) ==
    step.If \in {"", "always()", "success()"}

shouldRunStep(step) ==
    IF step.If = "" THEN TRUE
    ELSE CASE step.If = "always()"    -> TRUE
           [] step.If = "success()"   -> TRUE
           [] step.If = "failure()"   -> FALSE
           [] step.If = "cancelled()" -> FALSE
           [] OTHER                   -> TRUE

\* RunStep hands the command to executeWithRetry
UsesRetry(step) ==
    step.RetryPolicy # <<>> /\ step.RetryPolicy[1].MaxAttempts > 1

\* variant: the retry loop runs one pass more
EffectiveMaxAttempts_OneMore(step) ==
    IF UsesRetry(step) THEN step.RetryPolicy[1].MaxAttempts + 1 ELSE 1

\* executeWithRetry's loop bound; a plain executeCommand is one execution
EffectiveMaxAttempts(step) ==
    IF UsesRetry(step)
    THEN IF step.RetryPolicy[1].MaxAttempts <= 0 THEN 1 ELSE step.RetryPolicy[1].MaxAttempts
    ELSE 1

\* variant: the delay is applied before every attempt, the first included
SleepsBefore_EveryAttempt(step, n) ==
    /\ step.RetryPolicy[1].Delay # ""
    /\ ParseDurationOK(step.RetryPolicy[1].Delay)

\* executeWithRetry sleeps before this attempt
SleepsBefore(step, n) ==
    /\ n > 1
    /\ step.RetryPolicy[1].Delay # ""
    /\ ParseDurationOK(step.RetryPolicy[1].Delay)

\* the context of the command RunStep prepares: exec.CommandContext with
\* the step's deadline when timeout minutes > 0, plain exec.Command otherwise
PreparedCtx(step) == IF step.TimeoutMin > 0 THEN "deadline" ELSE "none"

\* the context of retryCmd: exec.Command(cmd.Path, cmd.Args[1:]...)
CloneCtx(ctx) == "none"

\* the context of the command an attempt hands to executeCommand
ExecCtx(step) ==
    IF UsesRetry(step) THEN CloneCtx(PreparedCtx(step)) ELSE PreparedCtx(step)

Ev(kind, i, arg) == <<kind, i, arg>>

NewSummary ==
    [TotalSteps |-> Len(steps), CompletedSteps |-> 0, FailedSteps |-> 0,
     SkippedSteps |-> 0, Success |-> TRUE, Errors |-> <<>>]

(* ------------------------------- Init ---------------------------------- *)
\* the validator is not running
ValIdle ==
    /\ needsOf = <<>>
    /\ vpc = "idle"
    /\ vTodo = {}
    /\ vErrors = <<>>

\* the parallel scheduler is not running
ParIdle ==
    /\ pJobs = {}
    /\ pMaxParallel = 0
    /\ pContinue = FALSE
    /\ mpc = "idle"
    /\ wpc = <<>>
    /\ wErr = <<>>
    /\ sem = 0
    /\ wg = 0
    /\ results = <<>>
    /\ closed = FALSE
    /\ pSuccess = 0
    /\ pFailure = 0
    /\ firstError = "nil"
    /\ parResult = "running"
    /\ pWarned = FALSE
    /\ pCollected = <<>>
    /\ pCleanups = <<>>

\* no image is being resolved
ImgIdle ==
    /\ dJob = [Container |-> <<>>, Image |-> "", RunsOn |-> ""]
    /\ dImage = ""
    /\ dpc = "idle"

\* the sequential scheduler over several jobs is not running
SeqIdle ==
    /\ sJobs = <<>>
    /\ sContinue = FALSE
    /\ spc = "idle"
    /\ sTodo = {}
    /\ sCur = 0
    /\ sErr = "nil"
    /\ sOut = <<>>
    /\ sWarned = FALSE
    /\ sSuccess = 0
    /\ sFailure = 0
    /\ sResult = "running"
    /\ sLog = <<>>

\* the run command is not running
RunIdle ==
    /\ rPipe = [Needs |-> <<>>, Stage |-> <<>>, Shape |-> "ok"]
    /\ rFlags = [job |-> "", stage |-> "", only |-> <<>>, except |-> <<>>]
    /\ rpc = "idle"
    /\ rErrors = {}
    /\ rSel = {}
    /\ rMode = "none"
    /\ rAsked = {}
    /\ rCreated = {}
    /\ rRan = {}
    /\ rResult = "running"

NoPhase == [pull |-> "none", create |-> "none", start |-> "none", logs |-> "none",
            wait |-> "none"]

\* no DockerRunner exists
DockIdle ==
    /\ kConfig = [DryRun |-> FALSE, PullImages |-> FALSE]
    /\ kpc = "none"
    /\ kRuns = 0
    /\ kPhase = NoPhase
    /\ kRet = "none"
    /\ kContainers = <<>>
    /\ kBorn = <<>>
    /\ kStop = <<>>
    /\ kRemove = <<>>
    /\ kCleans = 0
    /\ kTodo = <<>>
    /\ kErrs = 0
    /\ kCleanRet = "none"

\* no script is being generated or run
ScriptIdle ==
    /\ bJob = [Steps |-> <<>>]
    /\ bVerbose = FALSE
    /\ bpc = "idle"
    /\ bScript = <<>>
    /\ bLine = 0
    /\ bEnv = <<>>
    /\ bOut = <<>>
    /\ bExit = "none"

\* no pattern is being matched
MatchIdle ==
    /\ mName = ""
    /\ mPattern = ""
    /\ mMatch = FALSE
    /\ mpcall = "idle"

\* no file is being parsed
ConvIdle ==
    /\ qKind = "none"
    /\ qDoc = <<>>
    /\ qpc = "idle"
    /\ qSteps = <<>>
    /\ qRet = "running"

\* no command is being executed
StreamIdle ==
    /\ oEmit = <<>>
    /\ oSent = <<>>
    /\ oPipe = <<>>
    /\ oExited = FALSE
    /\ oReader = <<>>
    /\ oBuf = <<>>
    /\ oWriters = <<>>
    /\ oConsole = <<>>
    /\ opc = "idle"
    /\ oRet = "none"

\* RunStep is not running
StepIdle ==
    /\ tStep = <<>>
    /\ tpc = "idle"
    /\ tCmd = <<>>
    /\ tAttempt = 0
    /\ tLastErr = [msg |-> "nil"]
    /\ tErrs = <<>>
    /\ tDirs = <<>>
    /\ tRet = [msg |-> "none"]

\* no include is being processed
InclIdle ==
    /\ iBuilt = "none"
    /\ iCache = [made |-> FALSE, paths |-> {}]
    /\ iFiles = <<>>
    /\ iIncludes = <<>>
    /\ iNext = 0
    /\ iMerged = <<>>
    /\ ipc = "idle"
    /\ iRet = "none"

\* neither a parser nor a single command is running
AuxIdle == ConvIdle /\ StreamIdle /\ StepIdle /\ InclIdle

\* nothing of the run command or the containerized backend is running
ExtIdle == RunIdle /\ DockIdle /\ ScriptIdle /\ MatchIdle /\ AuxIdle

\* no environment is being built
EnvIdle ==
    /\ eLayers = [os |-> <<>>, pipeline |-> <<>>, job |-> <<>>, cli |-> <<>>, step |-> <<>>]
    /\ eRunnerEnv = <<>>
    /\ eJobEnv = <<>>
    /\ eCmdEnv = <<>>
    /\ epc = "idle"

\* one selected job: either at most one step of any shape, with every
\* setting of the run, or two or more shell-command steps
InitJob ==
    /\ ExtIdle
    /\ ValIdle
    /\ ParIdle
    /\ ImgIdle
    /\ SeqIdle
    /\ EnvIdle
    /\ config \in [DryRun : BOOLEAN, Timeout : {0, DefaultTimeout}]
    /\ \/ /\ steps \in SeqsOf(AllSteps, 0, 1)
          /\ workdirOK \in BOOLEAN
          /\ allowFailure \in BOOLEAN
          /\ continueOnError \in BOOLEAN
       \/ /\ steps \in SeqsOf(CommandSteps, 2, MaxSteps)
          /\ workdirOK = TRUE
          /\ allowFailure = FALSE
          /\ continueOnError = FALSE
    /\ pc = "start"
    /\ idx = 0
    /\ attempt = 0
    /\ stepErr = "nil"
    /\ summary = [TotalSteps |-> 0, CompletedSteps |-> 0, FailedSteps |-> 0,
                  SkippedSteps |-> 0, Success |-> TRUE, Errors |-> <<>>]
    /\ runJobErr = "nil"
    /\ successCount = 0
    /\ failureCount = 0
    /\ seqResult = "running"
    /\ trace = <<>>

\* the process backend is not running
JobIdle ==
    /\ config = [DryRun |-> FALSE, Timeout |-> 0]
    /\ steps = <<>>
    /\ allowFailure = FALSE
    /\ continueOnError = FALSE
    /\ workdirOK = TRUE
    /\ pc = "idle"
    /\ idx = 0
    /\ attempt = 0
    /\ stepErr = "nil"
    /\ summary = [TotalSteps |-> 0, CompletedSteps |-> 0, FailedSteps |-> 0,
                  SkippedSteps |-> 0, Success |-> TRUE, Errors |-> <<>>]
    /\ runJobErr = "nil"
    /\ successCount = 0
    /\ failureCount = 0
    /\ seqResult = "running"
    /\ trace = <<>>

inputVars == <<config, steps, allowFailure, continueOnError, workdirOK>>
seqVars == <<successCount, failureCount, seqResult>>

(* ------------------- BashRunner.RunJob, in steps ----------------------- *)
\* setupJobEnvironment: getGitBranch and getGitCommit each run git
setupJobEnvironment ==
    <<Ev("spawn", 0, "git rev-parse --abbrev-ref HEAD"), Ev("spawn", 0, "git rev-parse HEAD")>>

\* RunJob up to the step loop: workdir checks, setupJobEnvironment, summary
RunJobBegin ==
    /\ pc = "start"
    /\ UNCHANGED otherThanJob
    /\ IF ~workdirOK
       THEN /\ runJobErr' = "workdir"
            /\ pc' = "returned"
            /\ UNCHANGED <<idx, summary, trace>>
       ELSE /\ trace' = trace \o setupJobEnvironment
            /\ summary' = NewSummary
            /\ idx' = 1
            /\ pc' = "loop"
            /\ UNCHANGED runJobErr
    /\ UNCHANGED <<inputVars, seqVars, attempt, stepErr>>

\* the range loop is exhausted
LoopExit ==
    /\ pc = "loop"
    /\ UNCHANGED otherThanJob
    /\ idx > Len(steps)
    /\ pc' = "finish"
    /\ UNCHANGED <<inputVars, seqVars, idx, attempt, stepErr, summary, runJobErr, trace>>

\* elapsed minutes exceed config.Timeout at the head of the loop
JobTimeout ==
    /\ pc = "loop"
    /\ UNCHANGED otherThanJob
    /\ idx <= Len(steps)
    /\ config.Timeout > 0
    /\ summary' = [summary EXCEPT !.Success = FALSE,
                                  !.Errors = Append(@, "Job timeout exceeded")]
    /\ trace' = Append(trace, Ev("timeout", idx, ""))
    /\ pc' = "finish"
    /\ UNCHANGED <<inputVars, seqVars, idx, attempt, stepErr, runJobErr>>

\* variant: a skipped step is counted as failed as well
CountSkipped_AlsoFailed(s) == [s EXCEPT !.SkippedSteps = @ + 1, !.FailedSteps = @ + 1]

\* the summary after a step was skipped
CountSkipped(s) == [s EXCEPT !.SkippedSteps = @ + 1]

\* the guard is false: the step is skipped
SkipStep ==
    /\ pc = "loop"
    /\ UNCHANGED otherThanJob
    /\ idx <= Len(steps)
    /\ ~shouldRunStep(steps[idx])
    /\ summary' = CountSkipped(summary)
    /\ trace' = Append(trace, Ev("skip", idx, ""))
    /\ idx' = idx + 1
    /\ UNCHANGED <<inputVars, seqVars, pc, attempt, stepErr, runJobErr>>

\* variant: every reference that is not the checkout is handled as a tool setup
ActionKind_AnySetup(action) ==
    IF action = "actions/checkout" THEN "checkout" ELSE "setup"

\* the arm of runActionStep's switch the reference (the part before "@") takes
ActionKind(action) ==
    CASE action = "actions/checkout" -> "checkout"
      [] action \in {"actions/setup-go", "actions/setup-node", "actions/setup-python"} -> "setup"
      [] OTHER -> "unsupported"

\* RunStep on a step with a uses reference: runActionStep
RunActionStep ==
    /\ pc = "loop"
    /\ UNCHANGED otherThanJob
    /\ idx <= Len(steps)
    /\ shouldRunStep(steps[idx])
    /\ steps[idx].Uses # <<>>
    /\ LET action == steps[idx].Uses[1]
           run == Ev("run", idx, "")
       IN  \/ /\ ActionKind(action) = "checkout"
              /\ IF config.DryRun
                 THEN /\ trace' = trace \o <<run, Ev("plan", idx, "git fetch && git checkout")>>
                      /\ stepErr' = "nil"
                 ELSE \/ \* not a git repository
                         /\ trace' = trace \o <<run, Ev("spawn", idx, "git rev-parse --git-dir")>>
                         /\ stepErr' = "nil"
                      \/ \E fetchOK \in BOOLEAN :
                         /\ trace' = trace \o <<run, Ev("spawn", idx, "git rev-parse --git-dir"),
                                                Ev("spawn", idx, "git fetch --all --tags")>>
                         /\ stepErr' = IF fetchOK THEN "nil" ELSE "git fetch failed"
           \/ /\ ActionKind(action) = "setup"
              /\ IF config.DryRun
                 THEN trace' = trace \o <<run, Ev("plan", idx, "check tool")>>
                 ELSE trace' = trace \o <<run, Ev("spawn", idx, "tool --version")>>
              /\ stepErr' = "nil"
           \/ /\ ActionKind(action) = "unsupported"
              /\ trace' = trace \o <<run, Ev("warn", idx, "Unsupported action")>>
              /\ stepErr' = "nil"
    /\ pc' = "stepdone"
    /\ UNCHANGED <<inputVars, seqVars, idx, attempt, summary, runJobErr>>

\* RunStep on a step with neither uses nor run text
RunEmptyStep ==
    /\ pc = "loop"
    /\ UNCHANGED otherThanJob
    /\ idx <= Len(steps)
    /\ shouldRunStep(steps[idx])
    /\ steps[idx].Uses = <<>>
    /\ steps[idx].Run = ""
    /\ trace' = Append(trace, Ev("run", idx, ""))
    /\ stepErr' = "nil"
    /\ pc' = "stepdone"
    /\ UNCHANGED <<inputVars, seqVars, idx, attempt, summary, runJobErr>>

\* RunStep on a shell-command step in dry-run mode: printDryRun
RunDryStep ==
    /\ pc = "loop"
    /\ UNCHANGED otherThanJob
    /\ idx <= Len(steps)
    /\ shouldRunStep(steps[idx])
    /\ steps[idx].Uses = <<>>
    /\ steps[idx].Run # ""
    /\ config.DryRun
    /\ trace' = trace \o <<Ev("run", idx, ""), Ev("plan", idx, steps[idx].Run)>>
    /\ stepErr' = "nil"
    /\ pc' = "stepdone"
    /\ UNCHANGED <<inputVars, seqVars, idx, attempt, summary, runJobErr>>

\* RunStep on a shell-command step: the command is prepared and handed to
\* executeWithRetry or executeCommand
StartCommand ==
    /\ pc = "loop"
    /\ UNCHANGED otherThanJob
    /\ idx <= Len(steps)
    /\ shouldRunStep(steps[idx])
    /\ steps[idx].Uses = <<>>
    /\ steps[idx].Run # ""
    /\ ~config.DryRun
    /\ trace' = Append(trace, Ev("run", idx, ""))
    /\ attempt' = 1
    /\ pc' = "exec"
    /\ UNCHANGED <<inputVars, seqVars, idx, stepErr, summary, runJobErr>>

\* one pass of executeWithRetry's loop, or the single executeCommand; the
\* subprocess may still be running when the step's timeout elapses ("late"),
\* and is then killed when its command carries the deadline
ExecAttempt ==
    /\ pc = "exec"
    /\ UNCHANGED otherThanJob
    /\ attempt <= EffectiveMaxAttempts(steps[idx])
    /\ \E exits \in BOOLEAN, late \in BOOLEAN :
        LET step == steps[idx]
            slept == IF UsesRetry(step) /\ SleepsBefore(step, attempt)
                     THEN <<Ev("sleep", idx, step.RetryPolicy[1].Delay)>>
                     ELSE <<>>
            killed == late /\ ExecCtx(step) = "deadline"
            ok == exits /\ ~killed
            overran == IF late THEN <<Ev("late", idx, "")>> ELSE <<>>
            kill == IF killed THEN <<Ev("kill", idx, "context deadline exceeded")>> ELSE <<>>
            ran == <<Ev("exec", idx, IF ok THEN "ok" ELSE "fail")>>
        IN  /\ late => step.TimeoutMin > 0
            /\ killed => ~exits
            /\ trace' = trace \o slept \o overran \o kill \o ran
            /\ IF ok
               THEN /\ stepErr' = "nil"
                    /\ pc' = "stepdone"
                    /\ attempt' = 0
               ELSE IF UsesRetry(step)
                    THEN /\ attempt' = attempt + 1
                         /\ stepErr' = IF attempt + 1 <= EffectiveMaxAttempts(step)
                                       THEN stepErr ELSE "all attempts failed"
                         /\ pc' = IF attempt + 1 <= EffectiveMaxAttempts(step)
                                  THEN "exec" ELSE "stepdone"
                    ELSE /\ stepErr' = "command failed"
                         /\ pc' = "stepdone"
                         /\ attempt' = 0
    /\ UNCHANGED <<inputVars, seqVars, idx, summary, runJobErr>>

\* variant: continue_on_error is ignored
AbortsJob_IgnoreContinue(step, err) == err # "nil"

\* variant: a failed step never stops the loop
AbortsJob_Never(step, err) == FALSE

\* RunJob stops the step loop on this RunStep result
AbortsJob(step, err) == err # "nil" /\ ~step.ContinueOnErr

\* RunJob's handling of RunStep's result
StepDone ==
    /\ pc = "stepdone"
    /\ UNCHANGED otherThanJob
    /\ trace' = Append(trace, Ev("ret", idx, stepErr))
    /\ IF stepErr # "nil"
       THEN IF ~AbortsJob(steps[idx], stepErr)
            THEN /\ summary' = [summary EXCEPT !.FailedSteps = @ + 1]
                 /\ idx' = idx + 1
                 /\ pc' = "loop"
            ELSE /\ summary' = [summary EXCEPT !.FailedSteps = @ + 1,
                                               !.Success = FALSE,
                                               !.Errors = Append(@, "Step failed")]
                 /\ idx' = idx
                 /\ pc' = "finish"
       ELSE /\ summary' = [summary EXCEPT !.CompletedSteps = @ + 1]
            /\ idx' = idx + 1
            /\ pc' = "loop"
    /\ stepErr' = "nil"
    /\ attempt' = 0
    /\ UNCHANGED <<inputVars, seqVars, runJobErr>>

\* the value RunJob returns after the step loop
RunJobResult(s) == "nil"

\* RunJob after the loop: print the summary and return
RunJobEnd ==
    /\ pc = "finish"
    /\ UNCHANGED otherThanJob
    /\ runJobErr' = RunJobResult(summary)
    /\ pc' = "returned"
    /\ UNCHANGED <<inputVars, seqVars, idx, attempt, stepErr, summary, trace>>

(* --------------- runJobsSequential around the one job ------------------ *)
\* after RunJob: Cleanup, the counters, and the value returned
SeqJobDone ==
    /\ pc = "returned"
    /\ UNCHANGED otherThanJob
    /\ pc' = "accounted"
    /\ IF runJobErr # "nil"
       THEN /\ failureCount' = failureCount + 1
            /\ successCount' = successCount
            /\ seqResult' = IF ~continueOnError /\ ~allowFailure
                            THEN "job failed"
                            ELSE IF ~continueOnError THEN "jobs failed" ELSE "nil"
       ELSE /\ successCount' = successCount + 1
            /\ failureCount' = failureCount
            /\ seqResult' = "nil"
    /\ UNCHANGED <<inputVars, idx, attempt, stepErr, summary, runJobErr, trace>>

NextJob ==
    \/ RunJobBegin
    \/ LoopExit
    \/ JobTimeout
    \/ SkipStep
    \/ RunActionStep
    \/ RunEmptyStep
    \/ RunDryStep
    \/ StartCommand
    \/ ExecAttempt
    \/ StepDone
    \/ RunJobEnd
    \/ SeqJobDone

SpecJob == InitJob /\ [][NextJob]_vars

(* ===================== properties of the process backend =============== *)
Range(sq) == {sq[k] : k \in 1..Len(sq)}
Happened(kind, i) == \E e \in Range(trace) : e[1] = kind /\ e[2] = i
StepEvents(i, kinds) == SelectSeq(trace, LAMBDA e : e[2] = i /\ e[1] \in kinds)
Args(sq) == [k \in 1..Len(sq) |-> sq[k][3]]
\* outcomes of the subprocess executions of step i, in order
Outcomes(i) == Args(StepEvents(i, {"exec"}))
\* step numbers RunStep was called on, in order
Attempted == LET r == SelectSeq(trace, LAMBDA e : e[1] = "run")
             IN  [k \in 1..Len(r) |-> r[k][2]]
StepIds == 1..Len(steps)
\* RunStep returned an error for step i
Failed(i) == \E e \in Range(trace) : e[1] = "ret" /\ e[2] = i /\ e[3] # "nil"
Returned(i) == Happened("ret", i)
HardFailed(i) == Failed(i) /\ ~steps[i].ContinueOnErr
SoftFailed(i) == Failed(i) /\ steps[i].ContinueOnErr
RunJobReturned == pc \in {"returned", "accounted"}
Min(S) == CHOOSE x \in S : \A y \in S : x <= y
\* the declared step numbers up to n whose guard lets them run
Declared(n) == SelectSeq([k \in 1..n |-> k], LAMBDA k : shouldRunStep(steps[k]))

\* C2: whenever a step fails without continue_on_error, RunJob returns a
\* non-nil error, the scheduler counts the job as failed, and (without the
\* run-level continue flag) the run returns a failure
C2_HardFailureFailsJob ==
    (\E i \in StepIds : HardFailed(i)) =>
        /\ RunJobReturned => runJobErr # "nil"
        /\ pc = "accounted" =>
              /\ failureCount = 1
              /\ ~continueOnError => seqResult # "nil"

\* C3 (as stated): after a continue_on_error step fails, once RunJob has
\* returned the next declared step has been executed
C3_NextStepExecuted ==
    \A i \in StepIds :
        (SoftFailed(i) /\ i < Len(steps) /\ RunJobReturned) => Happened("run", i + 1)

\* C3 (amended): handling the failure of a continue_on_error step keeps
\* Success = true, adds exactly one to FailedSteps and moves the loop to the
\* next declared step; that step is then executed unless its own guard skips
\* it or the job timeout is found exceeded
C3_ContinueOnErrorKeepsGoing ==
    [][ /\ (pc = "stepdone" /\ stepErr # "nil" /\ steps[idx].ContinueOnErr) =>
              /\ summary.Success /\ summary'.Success
              /\ summary'.FailedSteps = summary.FailedSteps + 1
              /\ summary'.CompletedSteps = summary.CompletedSteps
              /\ pc' = "loop" /\ idx' = idx + 1
        /\ (pc = "loop" /\ idx > 1 /\ idx <= Len(steps) /\ SoftFailed(idx - 1)) =>
              \/ trace' = Append(trace, Ev("timeout", idx, "")) /\ config.Timeout > 0
              \/ trace' = Append(trace, Ev("skip", idx, "")) /\ steps[idx].If \in {"failure()", "cancelled()"}
              \/ Len(trace') > Len(trace) /\ trace'[Len(trace) + 1] = Ev("run", idx, "")
      ]_vars

\* C3 witness: a tolerated failure was handled and the next step was run
C3_Witness ==
    \E i \in StepIds :
        /\ SoftFailed(i) /\ Happened("run", i + 1)
        /\ summary.Success /\ summary.FailedSteps = 1

\* C4 (as stated): the steps attempted are the declared steps, guard-skipped
\* ones omitted, cut right after the first step that fails without
\* continue_on_error; after such a failure Success is false
C4_AttemptedIsDeclaredPrefix ==
    (RunJobReturned /\ workdirOK) =>
        LET hard == {i \in StepIds : HardFailed(i)}
            cut == IF hard = {} THEN Len(steps) ELSE Min(hard)
        IN  /\ Attempted = Declared(cut)
            /\ hard # {} => ~summary.Success

\* C4 (amended): the cut is right after the first step that fails without
\* continue_on_error, or right before the step at which the job timeout is
\* found exceeded; after either no later step is attempted and Success is
\* false, and otherwise Success is true
C4_AttemptedCutByFailureOrTimeout ==
    (RunJobReturned /\ workdirOK) =>
        LET hard == {i \in StepIds : HardFailed(i)}
            late == {i \in StepIds : Happened("timeout", i)}
            cuts == hard \cup {i - 1 : i \in late}
            cut == IF cuts = {} THEN Len(steps) ELSE Min(cuts)
        IN  /\ Attempted = Declared(cut)
            /\ summary.Success = (cuts = {})

\* C4 witness: step 1 failed without continue_on_error and step 2, whose
\* guard would let it run, was never attempted
C4_Witness ==
    /\ RunJobReturned
    /\ Len(steps) = 2
    /\ Attempted = <<1>>
    /\ HardFailed(1)
    /\ shouldRunStep(steps[2])
    /\ ~summary.Success

\* what the retry policy of a step asks for: the number of tries allowed
AllowedTries(step) ==
    IF step.RetryPolicy = <<>> \/ step.RetryPolicy[1].MaxAttempts <= 1
    THEN 1 ELSE step.RetryPolicy[1].MaxAttempts
HasDelay(step) ==
    step.RetryPolicy # <<>> /\ step.RetryPolicy[1].Delay = "1s"
IsPrefix(a, b) == Len(a) <= Len(b) /\ \A k \in 1..Len(a) : a[k] = b[k]

\* C5: a step with max_attempts = 3 and a parseable delay whose executions
\* fail, fail, succeed ends in success after exactly 3 executions, the delay
\* waited exactly twice: before the 2nd and the 3rd, not before the 1st
C5_FailFailSucceed ==
    \A i \in StepIds :
        ( /\ steps[i].RetryPolicy # <<>>
          /\ steps[i].RetryPolicy[1].MaxAttempts = 3
          /\ HasDelay(steps[i])
          /\ IsPrefix(<<"fail", "fail", "ok">>, Outcomes(i)) ) =>
            /\ StepEvents(i, {"exec", "sleep"}) =
                  <<Ev("exec", i, "fail"), Ev("sleep", i, "1s"), Ev("exec", i, "fail"),
                    Ev("sleep", i, "1s"), Ev("exec", i, "ok")>>
            /\ ~(pc = "exec" /\ idx = i)
            /\ ~Failed(i)
            /\ (pc = "stepdone" /\ idx = i) => stepErr = "nil"

\* C5 witness: such a step has failed twice, succeeded and been counted
C5_Witness ==
    /\ Len(steps) = 1
    /\ steps[1].RetryPolicy # <<>>
    /\ steps[1].RetryPolicy[1].MaxAttempts = 3
    /\ HasDelay(steps[1])
    /\ Outcomes(1) = <<"fail", "fail", "ok">>
    /\ Returned(1)
    /\ summary.CompletedSteps = 1

\* C6: the subprocess executions of a shell-command step number the index
\* of its first successful attempt when that is at most max_attempts, and
\* max_attempts otherwise (no policy or max_attempts <= 1: exactly one), so
\* the retries never exceed max_attempts - 1
C6_ExecutionCount ==
    \A i \in StepIds :
        LET o == Outcomes(i)
            m == AllowedTries(steps[i])
        IN  /\ Len(o) <= m
            /\ \A k \in 1..(Len(o) - 1) : o[k] = "fail"
            /\ (Returned(i) /\ steps[i].Uses = <<>> /\ steps[i].Run # "" /\ ~config.DryRun) =>
                  /\ Len(o) >= 1
                  /\ o[Len(o)] = "ok" \/ Len(o) = m
                  /\ Failed(i) <=> o[Len(o)] = "fail"

\* C6 witness: a step allowed 3 tries returned after 2 (first success) or
\* after all 3 failed
C6_Witness ==
    \E i \in StepIds :
        /\ Returned(i)
        /\ AllowedTries(steps[i]) = 3
        /\ Outcomes(i) \in {<<"fail", "ok">>, <<"fail", "fail", "fail">>}
        /\ steps[i].RetryPolicy[1].Delay = "soon"

\* C7 (as stated): a step guarded by the literal failure() is never run, and
\* a step guarded by any other non-empty string is never skipped
C7_OnlyFailureSkips ==
    \A i \in StepIds :
        /\ steps[i].If = "failure()" => ~Happened("run", i)
        /\ steps[i].If \notin {"", "failure()"} => ~Happened("skip", i)

\* C7 (amended): a step guarded by failure() or cancelled() is skipped and
\* never run; a step guarded by any other string is run, never skipped
C7_FailureAndCancelledSkip ==
    \A i \in StepIds :
        /\ steps[i].If \in {"failure()", "cancelled()"} =>
              /\ ~Happened("run", i)
              /\ idx > i => Happened("skip", i)
        /\ steps[i].If \notin {"failure()", "cancelled()"} =>
              /\ ~Happened("skip", i)
              /\ idx > i => Happened("run", i)

\* C7 witness: a step guarded by cancelled() was skipped
C7_Witness ==
    /\ Len(steps) = 1
    /\ steps[1].If = "cancelled()"
    /\ Happened("skip", 1)
    /\ summary.SkippedSteps = 1

\* C30: the guard decides by a fixed table and by nothing else: a step
\* guarded by always(), success(), the empty string or any other string is
\* run, a step guarded by failure() or cancelled() is skipped, whatever the
\* earlier steps did, and two steps with the same guard get the same decision
C30_GuardTableOnly ==
    \A i \in StepIds : idx > i =>
        /\ steps[i].If \in {"", "always()", "success()"} =>
              (Happened("run", i) /\ ~Happened("skip", i))
        /\ steps[i].If \in {"failure()", "cancelled()"} =>
              (Happened("skip", i) /\ ~Happened("run", i))
        /\ steps[i].If \notin {"", "always()", "success()", "failure()", "cancelled()"} =>
              (Happened("run", i) /\ ~Happened("skip", i))
        /\ \A h \in StepIds :
              (idx > h /\ steps[h].If = steps[i].If) =>
                  (Happened("skip", h) <=> Happened("skip", i))

\* C30 witness: the first step failed and was continued over, and the second
\* step, guarded by failure(), was skipped all the same
C30_Witness ==
    /\ Len(steps) = 2
    /\ SoftFailed(1)
    /\ steps[2].If = "failure()"
    /\ Happened("skip", 2)
    /\ ~Happened("run", 2)

\* the reference of step i is none of the four the backend knows
Unsupported(i) ==
    /\ steps[i].Uses # <<>>
    /\ steps[i].Uses[1] \notin {"actions/checkout", "actions/setup-go", "actions/setup-node",
                                 "actions/setup-python"}

\* C31: a step whose uses reference is outside the fixed table is never
\* executed: once RunStep was called on it, a warning has been printed, no
\* subprocess was spawned or planned for it, and RunStep returns nil,
\* whatever its run text, retry policy and timeout are
C31_UnsupportedActionSkipped ==
    \A i \in StepIds :
        (Unsupported(i) /\ Happened("run", i)) =>
            /\ Happened("warn", i)
            /\ \A e \in Range(trace) :
                  e[2] = i => e[1] \notin {"spawn", "exec", "plan", "sleep", "kill"}
            /\ ~Failed(i)
            /\ pc = "stepdone" => stepErr = "nil"

\* C31 witness: RunStep returned nil for a live step with an unknown
\* reference that also carries run text, a retry policy and a timeout
C31_Witness ==
    /\ Len(steps) = 1
    /\ Unsupported(1)
    /\ ~config.DryRun
    /\ steps[1].Run # ""
    /\ UsesRetry(steps[1])
    /\ steps[1].TimeoutMin > 0
    /\ Happened("warn", 1)
    /\ trace[Len(trace)] = Ev("ret", 1, "nil")
    /\ summary.CompletedSteps = 1

\* the events of kind k recorded for step i
EventCount(i, kinds) == Len(StepEvents(i, kinds))
\* the steps RunStep returned for, with an error or without
ReturnedWith(failed) ==
    {i \in StepIds : \E e \in Range(trace) :
                        e[1] = "ret" /\ e[2] = i /\ ((e[3] # "nil") <=> failed)}
\* the step loop ran to its end
LoopEnded == pc \in {"finish", "returned", "accounted"} /\ idx > Len(steps)

\* C36: at every point of RunJob each step is counted in at most one of
\* CompletedSteps, FailedSteps and SkippedSteps, a skipped step only in
\* SkippedSteps, so the three add up to at most TotalSteps, and to exactly
\* TotalSteps when the step loop ends without a break
C36_CountersPartitionSteps ==
    /\ \A i \in StepIds : EventCount(i, {"skip", "ret"}) <= 1
    /\ summary.SkippedSteps = Cardinality({i \in StepIds : Happened("skip", i)})
    /\ summary.CompletedSteps = Cardinality(ReturnedWith(FALSE))
    /\ summary.FailedSteps = Cardinality(ReturnedWith(TRUE))
    /\ summary.CompletedSteps + summary.FailedSteps + summary.SkippedSteps <= summary.TotalSteps
    /\ LoopEnded =>
          summary.CompletedSteps + summary.FailedSteps + summary.SkippedSteps = summary.TotalSteps

\* C36 witness: the loop ended over a skipped step and a step that failed
\* and was continued over: one in each counter, none completed
C36_Witness ==
    /\ LoopEnded
    /\ Len(steps) = 2
    /\ Happened("skip", 1)
    /\ SoftFailed(2)
    /\ summary.SkippedSteps = 1
    /\ summary.FailedSteps = 1
    /\ summary.CompletedSteps = 0
    /\ summary.TotalSteps = 2

\* C19: for a shell-command step with timeout minutes > 0, every subprocess
\* spawned for it, first attempt or retry, carries the step's deadline: one
\* still running when the deadline passes is killed and its attempt fails
C19_EveryAttemptHasDeadline ==
    \A i \in StepIds :
        steps[i].TimeoutMin > 0 =>
            \A k \in 1..Len(trace) :
                trace[k] = Ev("late", i, "") =>
                    /\ k + 2 <= Len(trace)
                    /\ trace[k + 1] = Ev("kill", i, "context deadline exceeded")
                    /\ trace[k + 2] = Ev("exec", i, "fail")

\* C10: in dry-run mode the process backend spawns no subprocess
C10_DryRunSpawnsNothing ==
    config.DryRun => \A e \in Range(trace) : e[1] \notin {"spawn", "exec"}


(* ========================= job graph validator ========================= *)
\* longest needs list of a job
MaxNeeds == 2
JobNames == {"A", "B", "C"}

\* pipelines: every non-empty (or empty) key set, every needs list over the
\* names; a name that is no key is a dangling reference
Pipelines ==
    UNION {[keys -> SeqsOf(JobNames, 0, MaxNeeds)] : keys \in SUBSET JobNames}

VErr(kind, job, need, chain) == [kind |-> kind, job |-> job, need |-> need, chain |-> chain]

\* variant: the chain is reported without the revisited job closing it
CycleChain_Open(visited, jobName) == visited

\* the chain of the error message: strings.Join(append(visited, jobName), " -> ")
CycleChain(visited, jobName) == Append(visited, jobName)

RECURSIVE checkCircularDependencies(_, _, _)
RECURSIVE checkNeedsFrom(_, _, _, _)

RECURSIVE checkNeedsFrom_SiblingsVisited(_, _, _, _)
\* variant: a job the loop has been through stays on the visited list for
\* the entries after it
checkNeedsFrom_SiblingsVisited(jobName, allJobs, visited, k) ==
    IF k > Len(allJobs[jobName]) THEN <<>>
    ELSE LET need == allJobs[jobName][k]
             r == IF need \in DOMAIN allJobs
                  THEN checkCircularDependencies(need, allJobs, visited)
                  ELSE <<>>
         IN  IF r # <<>> THEN r
             ELSE checkNeedsFrom_SiblingsVisited(jobName, allJobs, Append(visited, need), k + 1)

\* the loop over job.Needs of checkCircularDependencies, from entry k on
checkNeedsFrom(jobName, allJobs, visited, k) ==
    IF k > Len(allJobs[jobName]) THEN <<>>
    ELSE LET need == allJobs[jobName][k]
             r == IF need \in DOMAIN allJobs
                  THEN checkCircularDependencies(need, allJobs, visited)
                  ELSE <<>>
         IN  IF r # <<>> THEN r ELSE checkNeedsFrom(jobName, allJobs, visited, k + 1)

\* <<>> is nil; <<chain>> is the error "circular dependency detected: chain"
checkCircularDependencies(jobName, allJobs, visited) ==
    IF \E k \in 1..Len(visited) : visited[k] = jobName
    THEN <<CycleChain(visited, jobName)>>
    ELSE checkNeedsFrom(jobName, allJobs, Append(visited, jobName), 1)

\* variant: a dangling target is reported once however often it is listed
MissingNeeds_Distinct(jobName, needs, jobNames) ==
    LET bad == SelectSeq([k \in 1..Len(needs) |-> k],
                         LAMBDA k : needs[k] \notin jobNames
                                    /\ \A h \in 1..(k - 1) : needs[h] # needs[k])
    IN  [k \in 1..Len(bad) |-> VErr("missing", jobName, needs[bad[k]], <<>>)]

\* the loop over job.Needs of validatePipeline: one error per dangling entry
MissingNeeds(jobName, needs, jobNames) ==
    LET bad == SelectSeq(needs, LAMBDA n : n \notin jobNames)
    IN  [k \in 1..Len(bad) |-> VErr("missing", jobName, bad[k], <<>>)]

InitValidate ==
    /\ ExtIdle
    /\ JobIdle
    /\ ParIdle
    /\ ImgIdle
    /\ SeqIdle
    /\ EnvIdle
    /\ needsOf \in Pipelines
    /\ vpc = "start"
    /\ vTodo = {}
    /\ vErrors = <<>>

\* validatePipeline before the loop over the jobs
ValidateBegin ==
    /\ vpc = "start"
    /\ vErrors' = IF DOMAIN needsOf = {}
                  THEN <<VErr("nojobs", "", "", <<>>)>> ELSE <<>>
    /\ vTodo' = DOMAIN needsOf
    /\ vpc' = "jobs"
    /\ UNCHANGED <<needsOf, otherThanVal>>

\* one pass of the range loop over pipeline.Jobs, in map order
ValidateJob(jobName) ==
    /\ vpc = "jobs"
    /\ jobName \in vTodo
    /\ LET cyc == checkCircularDependencies(jobName, needsOf, <<>>)
       IN  vErrors' = vErrors
                      \o MissingNeeds(jobName, needsOf[jobName], DOMAIN needsOf)
                      \o (IF cyc # <<>>
                          THEN <<VErr("circular", jobName, "", cyc[1])>> ELSE <<>>)
    /\ vTodo' = vTodo \ {jobName}
    /\ UNCHANGED <<needsOf, vpc, otherThanVal>>

\* the loop is over: the errors are returned
ValidateEnd ==
    /\ vpc = "jobs"
    /\ vTodo = {}
    /\ vpc' = "done"
    /\ UNCHANGED <<needsOf, vTodo, vErrors, otherThanVal>>

NextValidate ==
    \/ ValidateBegin
    \/ \E j \in JobNames : ValidateJob(j)
    \/ ValidateEnd

SpecValidate == InitValidate /\ [][NextValidate]_vars

(* ------------------------ properties of validation --------------------- *)
Keys == DOMAIN needsOf
\* job a lists the existing job b in its needs
Edge(a, b) == a \in Keys /\ b \in Keys /\ b \in Range(needsOf[a])
RECURSIVE ReachIn(_, _)
\* the jobs reached from the set S in at most n more edges
ReachIn(S, n) ==
    IF n = 0 THEN S ELSE ReachIn(S \cup {b \in Keys : \E a \in S : Edge(a, b)}, n - 1)
OnCycle(j) == j \in ReachIn({b \in Keys : Edge(j, b)}, Cardinality(Keys))
HasCycle == \E j \in Keys : OnCycle(j)
\* c is a cycle of the needs relation written as a closed chain
ExactCycle(c) ==
    /\ Len(c) >= 2
    /\ c[1] = c[Len(c)]
    /\ \A k \in 1..(Len(c) - 1) : Edge(c[k], c[k + 1])
    /\ \A h, k \in 1..(Len(c) - 1) : h # k => c[h] # c[k]
Suffix(c, from) == SubSeq(c, from, Len(c))
Circular == {e \in Range(vErrors) : e.kind = "circular"}

\* C8: for every pipeline whose needs relation has a cycle, validation
\* returns a circular dependency error whose chain is an exact cycle in
\* traversal order, beginning and ending with the same job; every circular
\* dependency error carries such a chain as the tail of its chain
C8_CycleReportedAsChain ==
    vpc = "done" =>
        /\ HasCycle => \E e \in Circular : ExactCycle(e.chain)
        /\ \A e \in Circular :
              /\ e.chain[1] = e.job
              /\ \E k \in 1..Len(e.chain) : ExactCycle(Suffix(e.chain, k))

\* C8 witness: the cycle A -> B -> A is reported from A, and from C with the
\* lead-in C first
C8_Witness ==
    /\ vpc = "done"
    /\ \E e \in Circular : e.chain = <<"A", "B", "A">>
    /\ \E e \in Circular : e.chain = <<"C", "A", "B", "A">>

CountIn(sq, P(_)) == Len(SelectSeq(sq, P))

\* C9: validation reports exactly one "depends on non-existent job" error
\* for each needs entry whose target is no key of the jobs map, and none for
\* an entry that resolves
C9_OneErrorPerDanglingNeed ==
    vpc = "done" =>
        \A j \in Keys, n \in JobNames :
            CountIn(vErrors, LAMBDA e : e.kind = "missing" /\ e.job = j /\ e.need = n)
              = IF n \in Keys THEN 0
                ELSE CountIn(needsOf[j], LAMBDA x : x = n)

\* C9 witness: job A lists the missing job C twice and gets two errors
C9_Witness ==
    /\ vpc = "done"
    /\ Keys = {"A", "B"}
    /\ needsOf["A"] = <<"C", "C">>
    /\ needsOf["B"] = <<"A">>
    /\ CountIn(vErrors, LAMBDA e : e.kind = "missing") = 2

(* --------------- checkCircularDependencies from one job ---------------- *)
\* longest needs list of a job of the four-job pipelines
MaxCycleNeeds == 2
CycleNames == {"A", "B", "C", "D"}

\* needs lists without a repeated entry
NeedsLists(names, n) ==
    {sq \in SeqsOf(names, 0, n) : \A h, k \in 1..Len(sq) : h # k => sq[h] # sq[k]}

\* pipelines of four jobs: A and B need any jobs, C needs jobs among A and
\* D, D needs nothing, or A, or a job that does not exist
CyclePipelines ==
    {p \in [CycleNames -> NeedsLists(CycleNames, MaxCycleNeeds) \cup {<<"E">>}] :
        /\ \A j \in {"A", "B"} : p[j] # <<"E">>
        /\ p["C"] \in NeedsLists({"A", "D"}, MaxCycleNeeds)
        /\ p["D"] \in {<<>>, <<"A">>, <<"E">>}}

\* one call with an empty visited list, as the validators make it per job
InitCycle ==
    /\ ExtIdle
    /\ JobIdle
    /\ ParIdle
    /\ ImgIdle
    /\ SeqIdle
    /\ EnvIdle
    /\ needsOf \in CyclePipelines
    /\ vpc = "cycle"
    /\ vTodo \in {{j} : j \in CycleNames}
    /\ vErrors = <<>>

\* checkCircularDependencies(jobName, job, pipeline.Jobs, []string{})
CheckFrom(jobName) ==
    /\ vpc = "cycle"
    /\ jobName \in vTodo
    /\ LET cyc == checkCircularDependencies(jobName, needsOf, <<>>)
       IN  vErrors' = IF cyc # <<>> THEN <<VErr("circular", jobName, "", cyc[1])>> ELSE <<>>
    /\ vpc' = "checked"
    /\ UNCHANGED <<needsOf, vTodo, otherThanVal>>

NextCycle == \E j \in CycleNames : CheckFrom(j)

SpecCycle == InitCycle /\ [][NextCycle]_vars

\* a job on a cycle can be reached from job j through existing needs targets
CycleReachable(j) == \E b \in ReachIn({j}, Cardinality(Keys)) : OnCycle(b)

\* C35: the cycle check from any job terminates, returns an error exactly
\* when a job reachable from the start job through existing needs targets
\* lies on a cycle, and so returns nil from every job of an acyclic graph,
\* diamonds included
C35_CycleDetectionExact ==
    vpc = "checked" =>
        \A j \in vTodo :
            /\ (vErrors # <<>>) <=> CycleReachable(j)
            /\ ~HasCycle => vErrors = <<>>
            /\ \A e \in Range(vErrors) : \E k \in 1..Len(e.chain) : ExactCycle(Suffix(e.chain, k))

\* C35 witness: the check from A returned nil on the diamond A -> B -> D,
\* A -> C -> D
C35_Witness ==
    /\ vpc = "checked"
    /\ vTodo = {"A"}
    /\ needsOf = [j \in CycleNames |->
                    CASE j = "A" -> <<"B", "C">>
                      [] j = "B" -> <<"D">>
                      [] j = "C" -> <<"D">>
                      [] OTHER -> <<>>]
    /\ vErrors = <<>>

(* ========================== parallel scheduler ========================= *)
\* largest number of selected jobs
MaxParJobs == 3
\* largest value of the max-parallel flag
MaxParallelFlag == 2
\* runtime.NumCPU() of the host
NumCPU == 2

\* capacity of the semaphore channel
SlotCount(maxParallel) ==
    IF maxParallel <= 0 THEN NumCPU ELSE maxParallel

\* variant: one send more than the capacity gets through
CanAcquire_OneMore(tokens, capacity) == tokens <= capacity

\* sem <- struct{}{} can proceed
CanAcquire(tokens, capacity) == tokens < capacity

\* variant: the slot is never given back
ReleaseSlot_Leaks(tokens) == tokens

\* the deferred <-sem
ReleaseSlot(tokens) == tokens - 1

\* capacity of the results channel: make(chan jobResult, len(jobs))
ResultsCap(jobs) == Cardinality(jobs)

\* results <- jobResult{...} can proceed
CanSend(queue, capacity) == Len(queue) < capacity

InitPar ==
    /\ ExtIdle
    /\ JobIdle
    /\ ValIdle
    /\ ImgIdle
    /\ SeqIdle
    /\ EnvIdle
    /\ pJobs \in {1..n : n \in 1..MaxParJobs}
    /\ pMaxParallel \in -1..MaxParallelFlag
    /\ pContinue \in BOOLEAN
    /\ mpc = "launch"
    /\ wpc = [j \in pJobs |-> "new"]
    /\ wErr = [j \in pJobs |-> "nil"]
    /\ sem = 0
    /\ wg = 0
    /\ results = <<>>
    /\ closed = FALSE
    /\ pSuccess = 0
    /\ pFailure = 0
    /\ firstError = "nil"
    /\ parResult = "running"
    /\ pWarned = FALSE
    /\ pCollected = [j \in pJobs |-> 0]
    /\ pCleanups = [j \in pJobs |-> 0]

parInputs == <<pJobs, pMaxParallel, pContinue>>
collectVars == <<pSuccess, pFailure, firstError, parResult, pCollected>>
cleanVars == <<pWarned, pCleanups>>

\* one pass of the launching loop: wg.Add(1) and the go statement
Launch(j) ==
    /\ mpc = "launch"
    /\ wpc[j] = "new"
    /\ wg' = wg + 1
    /\ wpc' = [wpc EXCEPT ![j] = "waiting"]
    /\ UNCHANGED <<parInputs, collectVars, cleanVars, mpc, wErr, sem, results, closed, otherThanPar>>

\* the launching loop is over: the closer goroutine starts, main collects
LaunchDone ==
    /\ mpc = "launch"
    /\ \A j \in pJobs : wpc[j] # "new"
    /\ mpc' = "collect"
    /\ UNCHANGED <<parInputs, collectVars, cleanVars, wpc, wErr, sem, wg, results, closed, otherThanPar>>

\* sem <- struct{}{}
Acquire(j) ==
    /\ wpc[j] = "waiting"
    /\ CanAcquire(sem, SlotCount(pMaxParallel))
    /\ sem' = sem + 1
    /\ wpc' = [wpc EXCEPT ![j] = "acquired"]
    /\ UNCHANGED <<parInputs, collectVars, cleanVars, mpc, wErr, wg, results, closed, otherThanPar>>

\* createRunner: on an error the result is sent and the goroutine returns
CreateRunner(j) ==
    /\ wpc[j] = "acquired"
    /\ \/ /\ wpc' = [wpc EXCEPT ![j] = "running"]
          /\ UNCHANGED <<results, wErr>>
       \/ /\ CanSend(results, ResultsCap(pJobs))
          /\ wErr' = [wErr EXCEPT ![j] = "failed to create runner"]
          /\ results' = Append(results, [name |-> j, err |-> "failed to create runner"])
          /\ wpc' = [wpc EXCEPT ![j] = "release"]
    /\ UNCHANGED <<parInputs, collectVars, cleanVars, mpc, sem, wg, closed, otherThanPar>>

\* runner.RunJob returns
WorkerRunJob(j) ==
    /\ wpc[j] = "running"
    /\ \E err \in {"nil", "job failed"} : wErr' = [wErr EXCEPT ![j] = err]
    /\ wpc' = [wpc EXCEPT ![j] = "cleanup"]
    /\ UNCHANGED <<parInputs, collectVars, cleanVars, mpc, sem, wg, results, closed, otherThanPar>>

\* variant: Cleanup is skipped when the job failed
CleanupCalls_OnlyOnSuccess(err) == IF err = "nil" THEN 1 ELSE 0

\* the calls of runner.Cleanup a scheduler makes after RunJob returned err
CleanupCalls(err) == 1

\* variant: a Cleanup error replaces the job's own result
ErrAfterCleanup_Escalated(err, cleanupErr) ==
    IF cleanupErr # "nil" THEN cleanupErr ELSE err

\* the job's err after `if cleanupErr := runner.Cleanup(); cleanupErr != nil`:
\* the Cleanup error is printed as a warning and dropped
ErrAfterCleanup(err, cleanupErr) == err

\* runner.Cleanup, the warning, then the send of the result
WorkerCleanup(j) ==
    /\ wpc[j] = "cleanup"
    /\ CanSend(results, ResultsCap(pJobs))
    /\ \E cleanupErr \in {"nil", "cleanup completed with errors"} :
        /\ pWarned' = (pWarned \/ cleanupErr # "nil")
        /\ results' = Append(results, [name |-> j, err |-> ErrAfterCleanup(wErr[j], cleanupErr)])
    /\ pCleanups' = [pCleanups EXCEPT ![j] = @ + CleanupCalls(wErr[j])]
    /\ wpc' = [wpc EXCEPT ![j] = "release"]
    /\ UNCHANGED <<parInputs, collectVars, mpc, wErr, sem, wg, closed, otherThanPar>>

\* the deferred calls: <-sem, then wg.Done()
Release(j) ==
    /\ wpc[j] = "release"
    /\ sem' = ReleaseSlot(sem)
    /\ wg' = wg - 1
    /\ wpc' = [wpc EXCEPT ![j] = "done"]
    /\ UNCHANGED <<parInputs, collectVars, cleanVars, mpc, wErr, results, closed, otherThanPar>>

\* the closer goroutine: wg.Wait() returns, close(results)
CloseResults ==
    /\ mpc # "launch"
    /\ wg = 0
    /\ ~closed
    /\ closed' = TRUE
    /\ UNCHANGED <<parInputs, collectVars, cleanVars, mpc, wpc, wErr, sem, wg, results, otherThanPar>>

\* one pass of the collecting loop: for result := range results
Collect ==
    /\ mpc = "collect"
    /\ results # <<>>
    /\ LET r == Head(results)
       IN  IF r.err # "nil"
           THEN /\ pFailure' = pFailure + 1
                /\ firstError' = IF firstError = "nil" /\ ~pContinue THEN r.err ELSE firstError
                /\ UNCHANGED pSuccess
           ELSE /\ pSuccess' = pSuccess + 1
                /\ UNCHANGED <<pFailure, firstError>>
    /\ pCollected' = [pCollected EXCEPT ![Head(results).name] = @ + 1]
    /\ results' = Tail(results)
    /\ UNCHANGED <<parInputs, parResult, cleanVars, mpc, wpc, wErr, sem, wg, closed, otherThanPar>>

\* the channel is closed and drained: the summary and the value returned
ParFinish ==
    /\ mpc = "collect"
    /\ results = <<>>
    /\ closed
    /\ parResult' = IF firstError # "nil" /\ ~pContinue THEN "pipeline failed"
                    ELSE IF pFailure > 0 THEN "jobs failed" ELSE "nil"
    /\ mpc' = "done"
    /\ UNCHANGED <<parInputs, pSuccess, pFailure, firstError, cleanVars, pCollected, wpc,
                   wErr, sem, wg, results, closed, otherThanPar>>

NextPar ==
    \/ \E j \in pJobs : Launch(j)
    \/ LaunchDone
    \/ \E j \in pJobs : Acquire(j)
    \/ \E j \in pJobs : CreateRunner(j)
    \/ \E j \in pJobs : WorkerRunJob(j)
    \/ \E j \in pJobs : WorkerCleanup(j)
    \/ \E j \in pJobs : Release(j)
    \/ CloseResults
    \/ Collect
    \/ ParFinish

SpecPar == InitPar /\ [][NextPar]_vars

\* largest number of selected jobs of a run whose termination is checked
MaxLiveJobs == 2

InitParLive ==
    /\ InitPar
    /\ Cardinality(pJobs) <= MaxLiveJobs
    /\ pMaxParallel \in 0..1

\* every goroutine that can take a step is eventually scheduled; RunJob and
\* Cleanup return
FairPar ==
    /\ \A j \in 1..MaxLiveJobs :
        /\ WF_vars(j \in pJobs /\ Launch(j))
        /\ WF_vars(j \in pJobs /\ Acquire(j))
        /\ WF_vars(j \in pJobs /\ CreateRunner(j))
        /\ WF_vars(j \in pJobs /\ WorkerRunJob(j))
        /\ WF_vars(j \in pJobs /\ WorkerCleanup(j))
        /\ WF_vars(j \in pJobs /\ Release(j))
    /\ WF_vars(LaunchDone)
    /\ WF_vars(CloseResults)
    /\ WF_vars(Collect)
    /\ WF_vars(ParFinish)

SpecParLive == InitParLive /\ [][NextPar]_vars /\ FairPar

(* --------------------- properties of parallel mode --------------------- *)
\* the jobs between slot acquisition and slot release
InFlight == {j \in pJobs : wpc[j] \in {"acquired", "running", "cleanup", "release"}}
\* the bound the flag asks for
EffectiveBound == IF pMaxParallel > 0 THEN pMaxParallel ELSE NumCPU

\* C1: in parallel mode the number of jobs between slot acquisition and
\* slot release never exceeds max-parallel when it is > 0, and the CPU count
\* otherwise
C1_BoundedConcurrency ==
    /\ Cardinality(InFlight) <= EffectiveBound
    /\ sem = Cardinality(InFlight)

\* the results of job j that are in the channel or have been read from it
Delivered(j) == pCollected[j] + Len(SelectSeq(results, LAMBDA r : r.name = j))

\* C15: in parallel mode, RunJob and Cleanup returning, every selected job
\* runs to completion whatever the other jobs return and delivers exactly
\* one result, no goroutine stays blocked on the semaphore or on the results
\* channel, and the scheduler returns with successCount + failureCount equal
\* to the number of selected jobs
C15_AllJobsComplete ==
    /\ <>( /\ mpc = "done"
           /\ \A j \in pJobs : wpc[j] = "done" /\ pCollected[j] = 1
           /\ sem = 0 /\ wg = 0 /\ results = <<>>
           /\ pSuccess + pFailure = Cardinality(pJobs) )
    /\ [](\A j \in pJobs :
            /\ Delivered(j) <= 1
            /\ wpc[j] = "done" => Delivered(j) = 1)
    /\ [](mpc = "done" => pSuccess + pFailure = Cardinality(pJobs))

\* C15 witness: two jobs shared one slot, one of them failed, and the
\* scheduler returned having counted both
C15_Witness ==
    /\ mpc = "done"
    /\ Cardinality(pJobs) = 2
    /\ pMaxParallel = 1
    /\ pFailure = 1 /\ pSuccess = 1
    /\ \A j \in pJobs : wpc[j] = "done" /\ pCollected[j] = 1

\* C1 witness: with the flag at 0 and more jobs than CPUs, NumCPU jobs hold a
\* slot while another waits for one
C1_Witness ==
    /\ pMaxParallel = 0
    /\ Cardinality(pJobs) > NumCPU
    /\ Cardinality(InFlight) = NumCPU
    /\ \E j \in pJobs : wpc[j] = "waiting"
    /\ \E j \in pJobs : wpc[j] = "running"

(* ============== process backend: environment of a step ================= *)
EnvKeys == {"CI", "APP_ENV"}

\* a map[string]string defining some of the keys, each with the given value
MapsOf(value) == UNION {[ks -> {value}] : ks \in SUBSET EnvKeys}

\* mergeEnvironments(a, b): b is written over a
mergeEnvironments(a, b) ==
    [k \in DOMAIN a \cup DOMAIN b |-> IF k \in DOMAIN b THEN b[k] ELSE a[k]]

\* the markers setupJobEnvironment writes into r.environment
RunnerMarkers == [k \in {"CI", "GIT_CI"} |-> "true"]

\* the lists a range loop over the map can produce, one entry per key
Entries(m) ==
    LET n == Cardinality(DOMAIN m)
        orders == {o \in [1..n -> DOMAIN m] : \A a, b \in 1..n : a # b => o[a] # o[b]}
    IN  {[i \in 1..n |-> <<o[i], m[o[i]]>>] : o \in orders}

InitEnv ==
    /\ ExtIdle
    /\ JobIdle
    /\ ValIdle
    /\ ParIdle
    /\ ImgIdle
    /\ SeqIdle
    /\ eLayers \in [os : MapsOf("os"), pipeline : MapsOf("pipeline"), job : MapsOf("job"),
                    cli : MapsOf("cli"), step : MapsOf("step")]
    /\ eRunnerEnv = <<>>
    /\ eJobEnv = <<>>
    /\ eCmdEnv = <<>>
    /\ epc = "runjob"

\* RunJob: jobEnv := mergeEnvironments(job.Environment, r.config.Environment),
\* then setupJobEnvironment
EnvRunJob ==
    /\ epc = "runjob"
    /\ eJobEnv' = mergeEnvironments(eLayers.job, eLayers.cli)
    /\ eRunnerEnv' = mergeEnvironments(eRunnerEnv, RunnerMarkers)
    /\ epc' = "runstep"
    /\ UNCHANGED <<eLayers, eCmdEnv, otherThanEnv>>

\* RunStep: cmd.Env = buildStepEnvironment(env, step.Env): os.Environ(), then
\* r.environment, jobEnv and stepEnv appended
buildStepEnvironment ==
    /\ epc = "runstep"
    /\ \E o \in Entries(eLayers.os), r \in Entries(eRunnerEnv), j \in Entries(eJobEnv),
          st \in Entries(eLayers.step) :
        eCmdEnv' = o \o r \o j \o st
    /\ epc' = "built"
    /\ UNCHANGED <<eLayers, eRunnerEnv, eJobEnv, otherThanEnv>>

NextEnv ==
    \/ EnvRunJob
    \/ buildStepEnvironment

SpecEnv == InitEnv /\ [][NextEnv]_vars

(* ------------------- properties of the step environment ---------------- *)
\* the value the subprocess sees for a key: of duplicate entries os/exec
\* keeps the last
Effective(list, k) ==
    LET at == {i \in 1..Len(list) : list[i][1] = k}
    IN  IF at = {} THEN "unset" ELSE list[CHOOSE i \in at : \A h \in at : h <= i][2]

\* the layers of the claim, lowest first
ClaimedLayers ==
    <<eLayers.os, RunnerMarkers, eLayers.pipeline, eLayers.job, eLayers.step>>

\* the value of the highest layer that defines the key
Layered(k) ==
    LET def == {n \in 1..Len(ClaimedLayers) : k \in DOMAIN ClaimedLayers[n]}
    IN  IF def = {} THEN "unset"
        ELSE ClaimedLayers[CHOOSE n \in def : \A h \in def : h <= n][k]

\* C20: the environment handed to a step is the merge base process
\* environment < backend markers < pipeline environment < job environment <
\* step environment: every key has the value of the highest layer defining
\* it, so a key defined only by the pipeline is present and a job value
\* overrides the layers below (no --env given on the command line)
C20_LayeredEnvironment ==
    (epc = "built" /\ eLayers.cli = <<>>) =>
        \A k \in EnvKeys \cup DOMAIN RunnerMarkers : Effective(eCmdEnv, k) = Layered(k)

(* ========================= sequential scheduler ======================== *)
\* largest number of selected jobs of a sequential run
MaxSeqJobs == 2

\* the job-level flags as the parsers set them: none, GitLab allow_failure
\* (both fields), GitHub continue-on-error (ContinueOnErr only)
JobFlags ==
    {[AllowFailure |-> FALSE, ContinueOnErr |-> FALSE],
     [AllowFailure |-> TRUE, ContinueOnErr |-> TRUE],
     [AllowFailure |-> FALSE, ContinueOnErr |-> TRUE]}

SelectedJobs == UNION {[1..n -> JobFlags] : n \in 1..MaxSeqJobs}

\* variant: allow_failure is not looked at
AbortsRun_IgnoreAllowFailure(flag, job) == ~flag

\* the failure of this job makes runJobsSequential return at once
AbortsRun(flag, job) == ~flag /\ ~job.AllowFailure

\* variant: the flag is not looked at after the loop
FinalVerdict_IgnoreFlag(failed, flag) ==
    IF failed > 0 THEN "jobs failed" ELSE "nil"

\* the value returned after the loop
FinalVerdict(failed, flag) ==
    IF failed > 0 /\ ~flag THEN "jobs failed" ELSE "nil"

InitSeq ==
    /\ ExtIdle
    /\ JobIdle
    /\ ValIdle
    /\ ParIdle
    /\ ImgIdle
    /\ EnvIdle
    /\ sJobs \in SelectedJobs
    /\ sContinue \in BOOLEAN
    /\ spc = "loop"
    /\ sTodo = DOMAIN sJobs
    /\ sCur = 0
    /\ sErr = "nil"
    /\ sOut = [j \in DOMAIN sJobs |-> "none"]
    /\ sWarned = FALSE
    /\ sSuccess = 0
    /\ sFailure = 0
    /\ sResult = "running"
    /\ sLog = <<>>

seqInputs == <<sJobs, sContinue>>
seqCounts == <<sSuccess, sFailure, sResult>>

\* the head of one pass of the range loop, in map order
SeqStart(j) ==
    /\ spc = "loop"
    /\ j \in sTodo
    /\ sTodo' = sTodo \ {j}
    /\ sCur' = j
    /\ sErr' = "nil"
    /\ sLog' = Append(sLog, <<"start", j>>)
    /\ spc' = "create"
    /\ UNCHANGED <<seqInputs, seqCounts, sOut, sWarned, otherThanSeq>>

\* createRunner: on an error runJobsSequential returns it
SeqCreateRunner ==
    /\ spc = "create"
    /\ sLog' = Append(sLog, <<"create", sCur>>)
    /\ \/ /\ spc' = "run"
          /\ UNCHANGED <<sErr, sOut, sResult>>
       \/ /\ sErr' = "failed to create runner"
          /\ sOut' = [sOut EXCEPT ![sCur] = "failed to create runner"]
          /\ sResult' = "failed to create runner"
          /\ spc' = "done"
    /\ UNCHANGED <<seqInputs, sTodo, sCur, sWarned, sSuccess, sFailure, otherThanSeq>>

\* runner.RunJob returns
SeqRunJob ==
    /\ spc = "run"
    /\ \E err \in {"nil", "job failed"} :
        /\ sErr' = err
        /\ sOut' = [sOut EXCEPT ![sCur] = err]
    /\ sLog' = Append(sLog, <<"run", sCur>>)
    /\ spc' = "cleanup"
    /\ UNCHANGED <<seqInputs, seqCounts, sTodo, sCur, sWarned, otherThanSeq>>

\* runner.Cleanup and the warning
SeqCleanup ==
    /\ spc = "cleanup"
    /\ \E cleanupErr \in {"nil", "cleanup completed with errors"} :
        /\ sWarned' = (sWarned \/ cleanupErr # "nil")
        /\ sErr' = ErrAfterCleanup(sErr, cleanupErr)
    /\ sLog' = sLog \o [k \in 1..CleanupCalls(sErr) |-> <<"cleanup", sCur>>]
    /\ spc' = "account"
    /\ UNCHANGED <<seqInputs, seqCounts, sTodo, sCur, sOut, otherThanSeq>>

\* the counters, and the return on a failure that is not to be continued
SeqAccount ==
    /\ spc = "account"
    /\ IF sErr # "nil"
       THEN /\ sFailure' = sFailure + 1
            /\ UNCHANGED sSuccess
            /\ IF AbortsRun(sContinue, sJobs[sCur])
               THEN /\ sResult' = "job failed"
                    /\ spc' = "done"
               ELSE /\ spc' = "loop"
                    /\ UNCHANGED sResult
       ELSE /\ sSuccess' = sSuccess + 1
            /\ spc' = "loop"
            /\ UNCHANGED <<sFailure, sResult>>
    /\ UNCHANGED <<seqInputs, sTodo, sCur, sErr, sOut, sWarned, sLog, otherThanSeq>>

\* the loop is over: the summary and the value returned
SeqFinish ==
    /\ spc = "loop"
    /\ sTodo = {}
    /\ sResult' = FinalVerdict(sFailure, sContinue)
    /\ spc' = "done"
    /\ UNCHANGED <<seqInputs, sTodo, sCur, sErr, sOut, sWarned, sSuccess, sFailure, sLog,
                   otherThanSeq>>

NextSeq ==
    \/ \E j \in DOMAIN sJobs : SeqStart(j)
    \/ SeqCreateRunner
    \/ SeqRunJob
    \/ SeqCleanup
    \/ SeqAccount
    \/ SeqFinish

SpecSeq == InitSeq /\ [][NextSeq]_vars


(* -------------------- properties of sequential mode -------------------- *)
SeqNames == DOMAIN sJobs
Logged(kind, j) == \E k \in 1..Len(sLog) : sLog[k] = <<kind, j>>
\* the position of a call in the log (0 = not made)
LogPos(kind, j) ==
    IF Logged(kind, j) THEN CHOOSE k \in 1..Len(sLog) : sLog[k] = <<kind, j>> ELSE 0
\* RunJob returned an error for job j
JobFailed(j) == sOut[j] = "job failed"
\* the failure of job j has been counted or has ended the run
Accounted(j) == Logged("cleanup", j) /\ ~(sCur = j /\ spc = "account")
\* some job was started after job j was cleaned up
StartedAfter(j) == \E k \in SeqNames : LogPos("start", k) > LogPos("cleanup", j)
\* job j was the last thing the scheduler touched
LastTouched(j) == Len(sLog) > 0 /\ sLog[Len(sLog)] = <<"cleanup", j>>
FailedJobs == {j \in SeqNames : JobFailed(j)}
\* every selected job has been run and cleaned up
AllProcessed == \A j \in SeqNames : Logged("cleanup", j)

\* C12: in sequential mode a failed job ends the run at once, no later job
\* being started, unless the run-level flag is set or the job is marked
\* allow-failure; in those two cases the failure is counted and the next
\* selected job, when there is one, is started
C12_FailFastUnlessContinued ==
    \A j \in SeqNames :
        (JobFailed(j) /\ Accounted(j)) =>
            IF ~sContinue /\ ~sJobs[j].AllowFailure
            THEN /\ spc = "done"
                 /\ sResult = "job failed"
                 /\ LastTouched(j)
                 /\ ~StartedAfter(j)
            ELSE /\ sFailure >= Cardinality({k \in FailedJobs : Accounted(k)})
                 /\ sFailure >= 1
                 /\ spc = "done" => (sTodo = {} \/ StartedAfter(j))
                 /\ (spc # "done" /\ sTodo # {}) => (spc = "loop" \/ StartedAfter(j))

\* C12 witness: the first job failed with allow-failure and no run-level
\* flag, and the second job was started and run after it
C12_Witness ==
    /\ spc = "done"
    /\ ~sContinue
    /\ \E j, k \in SeqNames :
        /\ j # k
        /\ JobFailed(j) /\ sJobs[j].AllowFailure
        /\ LogPos("run", k) > LogPos("cleanup", j)
    /\ sFailure = 1 /\ sSuccess = 1

\* C13: in sequential mode, once every selected job has been processed the
\* value returned is a failure exactly when at least one job failed and the
\* run-level flag was not set; with the flag it is success whatever the
\* failure count
C13_FinalVerdict ==
    (spc = "done" /\ AllProcessed) =>
        /\ sFailure = Cardinality(FailedJobs)
        /\ sSuccess + sFailure = Cardinality(SeqNames)
        /\ (sResult # "nil") <=> (sFailure > 0 /\ ~sContinue)
        /\ sContinue => sResult = "nil"

\* C13 witness: every job failed under the run-level flag and the run
\* returned success
C13_Witness ==
    /\ spc = "done"
    /\ AllProcessed
    /\ sContinue
    /\ Cardinality(SeqNames) = 2
    /\ sFailure = 2
    /\ sResult = "nil"

\* C14: without the run-level flag, the failure of a job marked
\* allow_failure or continue_on_error at job level does not end the run: the
\* remaining selected jobs are still started after it
C14_JobLevelFlagsContinue ==
    \A j \in SeqNames :
        ( /\ JobFailed(j) /\ Accounted(j)
          /\ ~sContinue
          /\ (sJobs[j].AllowFailure \/ sJobs[j].ContinueOnErr) ) =>
            (spc = "done" => (sTodo = {} \/ StartedAfter(j)))

(* ============ both schedulers on the same jobs and results ============= *)
\* runJobsParallel, then runJobsSequential, on the same selected jobs, with
\* the same flag, every backend call returning to both what it returned to
\* the first
InitSched ==
    /\ ExtIdle
    /\ JobIdle
    /\ ValIdle
    /\ ImgIdle
    /\ EnvIdle
    /\ pJobs \in {1..n : n \in 1..MaxSeqJobs}
    /\ pMaxParallel \in 0..1
    /\ pContinue \in BOOLEAN
    /\ mpc = "launch"
    /\ wpc = [j \in pJobs |-> "new"]
    /\ wErr = [j \in pJobs |-> "nil"]
    /\ sem = 0
    /\ wg = 0
    /\ results = <<>>
    /\ closed = FALSE
    /\ pSuccess = 0
    /\ pFailure = 0
    /\ firstError = "nil"
    /\ parResult = "running"
    /\ pWarned = FALSE
    /\ pCollected = [j \in pJobs |-> 0]
    /\ pCleanups = [j \in pJobs |-> 0]
    /\ sJobs \in [pJobs -> JobFlags]
    /\ sContinue = pContinue
    /\ spc = "loop"
    /\ sTodo = pJobs
    /\ sCur = 0
    /\ sErr = "nil"
    /\ sOut = [j \in pJobs |-> "none"]
    /\ sWarned = FALSE
    /\ sSuccess = 0
    /\ sFailure = 0
    /\ sResult = "running"
    /\ sLog = <<>>

\* createRunner and RunJob returned for a job what they returned for it in
\* the parallel run
SameOutcomes == \A j \in DOMAIN sJobs : sOut[j] \in {"none", wErr[j]}

NextSched ==
    \/ NextPar
    \/ (mpc = "done" /\ NextSeq /\ SameOutcomes')

SpecSched == InitSched /\ [][NextSched]_vars

(* ------------------ properties of the two modes together --------------- *)
BothReturned == mpc = "done" /\ spc = "done"
\* jobs for which createRunner or RunJob returned an error to the goroutine
ParFailedJobs == {j \in pJobs : wErr[j] # "nil"}
CreateFailed(j) == wErr[j] = "failed to create runner"

\* C16: for the same per-job outcomes and the same run-level flag,
\* runJobsParallel returns a failure exactly when runJobsSequential does
C16_SameVerdict ==
    BothReturned => ((parResult # "nil") <=> (sResult # "nil"))

\* C17: a Cleanup error changes neither the counts nor the value returned,
\* in either mode: the result a goroutine sends is what createRunner or
\* RunJob returned, the counts are those of these results, and the values
\* returned follow from them and the flag alone
C17_CleanupNeverChangesVerdict ==
    /\ \A k \in 1..Len(results) : results[k].err = wErr[results[k].name]
    /\ mpc = "done" =>
          /\ pFailure = Cardinality(ParFailedJobs)
          /\ pSuccess = Cardinality(pJobs \ ParFailedJobs)
          /\ (parResult # "nil") <=> (ParFailedJobs # {})
    /\ spc = "account" => sErr = sOut[sCur]
    /\ spc \in {"loop", "done"} =>
          /\ sFailure = Cardinality({j \in FailedJobs : Accounted(j)})
          /\ sSuccess = Cardinality({j \in SeqNames : sOut[j] = "nil" /\ Accounted(j)})
    /\ spc = "done" =>
          (sResult # "nil") <=>
              \/ \E j \in SeqNames : sOut[j] = "failed to create runner"
              \/ sFailure > 0 /\ ~sContinue

\* C17 witness: Cleanup returned an error in both modes, every RunJob
\* succeeded, and both schedulers returned success
C17_Witness ==
    /\ BothReturned
    /\ pWarned /\ sWarned
    /\ Cardinality(pJobs) = 2
    /\ pSuccess = 2 /\ sSuccess = 2
    /\ parResult = "nil" /\ sResult = "nil"

\* C18: when constructing the backend of one job fails, that job is recorded
\* as failed and the other selected jobs are still run whenever continuation
\* applies, in parallel mode and in sequential mode
C18_CreateFailureIsPerJob ==
    /\ mpc = "done" =>
          \A j \in pJobs : CreateFailed(j) =>
              /\ pFailure >= 1
              /\ \A k \in pJobs \ {j} : pCollected[k] = 1
    /\ spc = "done" =>
          \A j \in SeqNames : sOut[j] = "failed to create runner" =>
              /\ sFailure >= 1
              /\ sContinue => \A k \in SeqNames \ {j} : Logged("start", k)

\* the calls of Cleanup the sequential scheduler made for job j
SeqCleanups(j) == Len(SelectSeq(sLog, LAMBDA e : e = <<"cleanup", j>>))
\* the goroutine of job j has a backend: createRunner returned one
ParCreated(j) ==
    \/ wpc[j] \in {"running", "cleanup"}
    \/ wpc[j] \in {"release", "done"} /\ ~CreateFailed(j)

\* C22: in both modes Cleanup is called exactly once on every backend that
\* was created, after its RunJob returned, whatever RunJob returned; in
\* parallel mode the call is made before the goroutine gives its slot back,
\* in sequential mode before the loop starts another job; no Cleanup is
\* called for a job without a backend
C22_CleanupExactlyOnce ==
    /\ \A j \in pJobs :
          /\ wpc[j] \in {"new", "waiting", "acquired", "running", "cleanup"}
                => pCleanups[j] = 0
          /\ wpc[j] \in {"release", "done"}
                => pCleanups[j] = IF ParCreated(j) THEN 1 ELSE 0
    /\ \A j \in SeqNames :
          /\ SeqCleanups(j) <= 1
          /\ Logged("cleanup", j) =>
                Logged("run", j) /\ LogPos("run", j) < LogPos("cleanup", j)
          /\ (Logged("run", j) /\ ~(sCur = j /\ spc = "cleanup")) => SeqCleanups(j) = 1
          /\ \A k \in SeqNames :
                (Logged("run", j) /\ LogPos("start", k) > LogPos("run", j))
                    => (Logged("cleanup", j) /\ LogPos("cleanup", j) < LogPos("start", k))

\* C22 witness: in both modes a job whose RunJob failed was cleaned up once
\* and another job was started after it
C22_Witness ==
    /\ BothReturned
    /\ \E j \in pJobs : wErr[j] = "job failed" /\ pCleanups[j] = 1
    /\ \E j, k \in SeqNames :
          /\ sOut[j] = "job failed"
          /\ SeqCleanups(j) = 1
          /\ LogPos("start", k) > LogPos("cleanup", j)

(* ============== containerized backend: image resolution ================ *)
\* the runs_on labels drawn for a job
RunsOnLabels ==
    {"", "ubuntu-22.04", "Ubuntu-22.04", "UBUNTU-LATEST", "ubuntu-18.04", "node-18",
     "Node-16", "debian-bookworm", "alpine", "python-3.9", "golang-1.21", "mongo-db",
     "macos-latest", "self-hosted", "unknown-thing"}

\* a *Container is <<>> (nil) or <<c>>
Containers == {<<>>, <<[Image |-> ""]>>, <<[Image |-> "ghcr.io/acme/build:1"]>>}

DockerJobs == [Container : Containers, Image : {"", "rust:1.75"}, RunsOn : RunsOnLabels]

UpperLetters == "ABCDEFGHIJKLMNOPQRSTUVWXYZ"
LowerLetters == "abcdefghijklmnopqrstuvwxyz"

\* one character of strings.ToLower
ToLowerChar(c) ==
    IF \E k \in 1..Len(UpperLetters) : SubSeq(UpperLetters, k, k) = c
    THEN LET k == CHOOSE h \in 1..Len(UpperLetters) : SubSeq(UpperLetters, h, h) = c
         IN  SubSeq(LowerLetters, k, k)
    ELSE c

\* variant: the label is used as written
ToLower_AsWritten(str) == str

RECURSIVE ToLower(_)
\* strings.ToLower
ToLower(str) ==
    IF Len(str) = 0 THEN ""
    ELSE ToLowerChar(SubSeq(str, 1, 1)) \o ToLower(SubSeq(str, 2, Len(str)))

\* strings.Contains
Contains(str, substr) ==
    \E k \in 1..(Len(str) - Len(substr) + 1) : SubSeq(str, k, k + Len(substr) - 1) = substr

\* the imageMap literal of getImageName
imageMap ==
    "ubuntu-24.04" :> "ubuntu:24.04" @@ "ubuntu-22.04" :> "ubuntu:22.04" @@
    "ubuntu-20.04" :> "ubuntu:20.04" @@ "ubuntu-latest" :> "ubuntu:latest" @@
    "debian-12" :> "debian:12" @@ "debian-11" :> "debian:11" @@
    "alpine-3.19" :> "alpine:3.19" @@ "alpine-3.18" :> "alpine:3.18" @@
    "node-23" :> "node:23" @@ "node-22" :> "node:22" @@ "node-20" :> "node:20" @@
    "node-18" :> "node:18-slim" @@
    "python-3.14" :> "python:3.14-slim" @@ "python-3.13" :> "python:3.13-slim" @@
    "python-3.12" :> "python:3.12-slim" @@ "python-3.11" :> "python:3.11-slim" @@
    "golang-1.23" :> "golang:1.23-alpine" @@ "golang-1.22" :> "golang:1.22-alpine" @@
    "golang-1.20" :> "golang:1.20-alpine"

\* the switch of getImageName on the lower-cased label
patternImage(runsOn) ==
    CASE Contains(runsOn, "ubuntu") -> "ubuntu:22.04"
      [] Contains(runsOn, "debian") -> "debian:latest"
      [] Contains(runsOn, "alpine") -> "alpine:latest"
      [] Contains(runsOn, "node")   -> "node:lts-slim"
      [] Contains(runsOn, "python") -> "python:3-slim"
      [] Contains(runsOn, "golang") \/ Contains(runsOn, "go") -> "golang:alpine"
      [] OTHER -> "ubuntu:22.04"

\* variant: the job image is looked at before the container image
getImageName_JobImageFirst(job) ==
    IF job.Image # "" THEN job.Image
    ELSE IF job.Container # <<>> /\ job.Container[1].Image # "" THEN job.Container[1].Image
    ELSE LET runsOn == ToLower(job.RunsOn)
         IN  IF runsOn \in DOMAIN imageMap THEN imageMap[runsOn] ELSE patternImage(runsOn)

getImageName(job) ==
    IF job.Container # <<>> /\ job.Container[1].Image # "" THEN job.Container[1].Image
    ELSE IF job.Image # "" THEN job.Image
    ELSE LET runsOn == ToLower(job.RunsOn)
         IN  IF runsOn \in DOMAIN imageMap THEN imageMap[runsOn] ELSE patternImage(runsOn)

InitImage ==
    /\ ExtIdle
    /\ JobIdle
    /\ ValIdle
    /\ ParIdle
    /\ SeqIdle
    /\ EnvIdle
    /\ dJob \in DockerJobs
    /\ dImage = ""
    /\ dpc = "start"

\* imageName := r.getImageName(job)
ResolveImage ==
    /\ dpc = "start"
    /\ dImage' = getImageName(dJob)
    /\ dpc' = "resolved"
    /\ UNCHANGED <<dJob, otherThanImg>>

NextImage == ResolveImage

SpecImage == InitImage /\ [][NextImage]_vars

(* --------------------- properties of image resolution ------------------ *)
\* the image the resolution falls back to when nothing else applies
HardDefaultImage == "ubuntu:22.04"
\* ecosystem keywords in the order they are tried, with their images
Ecosystems ==
    <<<<"ubuntu", "ubuntu:22.04">>, <<"debian", "debian:latest">>, <<"alpine", "alpine:latest">>,
      <<"node", "node:lts-slim">>, <<"python", "python:3-slim">>, <<"golang", "golang:alpine">>,
      <<"go", "golang:alpine">>>>
HasContainerImage == dJob.Container # <<>> /\ dJob.Container[1].Image # ""
HasJobImage == dJob.Image # ""
InTable == ToLower(dJob.RunsOn) \in DOMAIN imageMap
NamesEcosystem(k) == Contains(ToLower(dJob.RunsOn), Ecosystems[k][1])

\* C11: the image is the container image when non-empty, else the job image
\* when non-empty, else the table entry of the lower-cased runs_on
\* (ubuntu-22.04 -> ubuntu:22.04), else the image of the first ecosystem
\* keyword the label contains, else the hard default; unknown-thing resolves
\* to the default
C11_ImagePriority ==
    dpc = "resolved" =>
        /\ HasContainerImage => dImage = dJob.Container[1].Image
        /\ (~HasContainerImage /\ HasJobImage) => dImage = dJob.Image
        /\ (~HasContainerImage /\ ~HasJobImage) =>
              /\ InTable => dImage = imageMap[ToLower(dJob.RunsOn)]
              /\ ToLower(dJob.RunsOn) = "ubuntu-22.04" => dImage = "ubuntu:22.04"
              /\ ToLower(dJob.RunsOn) = "ubuntu-latest" => dImage = "ubuntu:latest"
              /\ ToLower(dJob.RunsOn) = "node-18" => dImage = "node:18-slim"
              /\ ~InTable =>
                    /\ \A k \in 1..Len(Ecosystems) :
                          (NamesEcosystem(k) /\ \A h \in 1..(k - 1) : ~NamesEcosystem(h))
                              => dImage = Ecosystems[k][2]
                    /\ (\A k \in 1..Len(Ecosystems) : ~NamesEcosystem(k))
                          => dImage = HardDefaultImage
              /\ dJob.RunsOn = "unknown-thing" => dImage = HardDefaultImage

\* C11 witness: with no image given, an upper-case label was resolved through
\* the table
C11_Witness ==
    /\ dpc = "resolved"
    /\ ~HasContainerImage /\ ~HasJobImage
    /\ dJob.RunsOn = "UBUNTU-LATEST"
    /\ dImage = "ubuntu:latest"

(* ============================ the run command ========================== *)
\* none of the schedulers, validators and backends modelled above is running
CoreIdle == JobIdle /\ ValIdle /\ ParIdle /\ ImgIdle /\ SeqIdle /\ EnvIdle

RunJobNames == {"build", "rebuild", "test"}
RunStages == {"build", "test"}
\* job.Needs of the run command's pipelines: no entry or one entry
RunNeeds == {<<>>} \cup {<<n>> : n \in RunJobNames}

\* the pipelines a workflow file converts to: any set of jobs, every needs
\* list (a name that is no job dangles), every stage; Shape is "bad" when a
\* check of Validate that does not look at the needs fails (no name, no
\* runs-on, no steps, a malformed step)
RunPipelines ==
    UNION {[Needs : [keys -> RunNeeds], Stage : [keys -> RunStages], Shape : {"ok", "bad"}]
           : keys \in SUBSET RunJobNames}

\* the command line of `run`: --job, --stage, --only, --except
RunFlags ==
    [job : {"", "build", "*build", "deploy"},
     stage : {"", "test", "release"},
     only : {<<>>, <<"build*">>},
     except : {<<>>, <<"test">>}]

RECURSIVE RemoveStars(_)
\* strings.ReplaceAll(pattern, "*", "")
RemoveStars(str) ==
    IF Len(str) = 0 THEN ""
    ELSE (IF SubSeq(str, 1, 1) = "*" THEN "" ELSE SubSeq(str, 1, 1))
         \o RemoveStars(SubSeq(str, 2, Len(str)))

\* matchPattern
matchPattern(name, pattern) ==
    IF pattern = name THEN TRUE
    ELSE IF Contains(pattern, "*") THEN Contains(name, RemoveStars(pattern))
    ELSE FALSE

\* getJobsByStage: the keys of the returned map
getJobsByStage(pipeline, stage) ==
    {name \in DOMAIN pipeline.Stage : pipeline.Stage[name] = stage}

\* filterJobs: the keys of the returned map
filterJobs(jobs, only, except) ==
    IF Len(only) = 0 /\ Len(except) = 0 THEN jobs
    ELSE {name \in jobs :
            /\ Len(only) > 0 => \E k \in 1..Len(only) : matchPattern(name, only[k])
            /\ Len(except) > 0 => ~\E k \in 1..Len(except) : matchPattern(name, except[k])}

\* selectJobsToRun: the keys of the returned map ({} for nil and for an
\* empty map alike: CmdRun tests len(jobs) == 0)
selectJobsToRun(flags, pipeline) ==
    LET jobs == DOMAIN pipeline.Needs
    IN  IF flags.job # ""
        THEN IF flags.job \in jobs THEN {flags.job}
             ELSE {name \in jobs : matchPattern(name, flags.job)}
        ELSE IF flags.stage # "" /\ getJobsByStage(pipeline, flags.stage) = {}
        THEN {}
        ELSE filterJobs(IF flags.stage # "" THEN getJobsByStage(pipeline, flags.stage)
                        ELSE jobs,
                        flags.only, flags.except)

\* Validate of the parsers: the errors of the job graph (the order in which
\* they are appended follows the map order and is not kept), and the error of
\* the other checks
ParserValidate(pipeline) ==
    LET jobs == DOMAIN pipeline.Needs
    IN  (IF jobs = {} THEN {VErr("nojobs", "", "", <<>>)} ELSE {})
        \cup (IF pipeline.Shape = "bad" THEN {VErr("shape", "", "", <<>>)} ELSE {})
        \cup UNION {Range(MissingNeeds(j, pipeline.Needs[j], jobs)) : j \in jobs}
        \cup UNION {LET cyc == checkCircularDependencies(j, pipeline.Needs, <<>>)
                    IN  IF cyc # <<>> THEN {VErr("circular", j, "", cyc[1])} ELSE {}
                    : j \in jobs}

\* variant: the errors Validate collected are only reported
ParseError_Lenient(errors) == "nil"

\* Parse after Validate: `if len(errors) > 0` and `if err := p.Validate(...)`
ParseError(errors) ==
    IF errors # {} THEN "validation failed" ELSE "nil"

InitRun ==
    /\ AuxIdle
    /\ CoreIdle
    /\ DockIdle
    /\ ScriptIdle
    /\ MatchIdle
    /\ rPipe \in RunPipelines
    /\ rFlags \in RunFlags
    /\ rpc = "parse"
    /\ rErrors = {}
    /\ rSel = {}
    /\ rMode = "none"
    /\ rAsked = {}
    /\ rCreated = {}
    /\ rRan = {}
    /\ rResult = "running"

runInputs == <<rPipe, rFlags>>
runSched == <<rMode, rAsked, rCreated, rRan>>

\* parseInput: the parser converts the file and validates the pipeline
RunParse ==
    /\ rpc = "parse"
    /\ rErrors' = ParserValidate(rPipe)
    /\ IF ParseError(rErrors') # "nil"
       THEN /\ rResult' = "failed to parse pipeline"
            /\ rpc' = "done"
       ELSE /\ rpc' = "workdir"
            /\ UNCHANGED rResult
    /\ UNCHANGED <<runInputs, rSel, runSched, otherThanRun>>

\* getWorkdir, which may fail, and buildRunnerConfig
RunWorkdir ==
    /\ rpc = "workdir"
    /\ \E ok \in BOOLEAN :
        IF ok THEN rpc' = "select" /\ UNCHANGED rResult
        ELSE rpc' = "done" /\ rResult' = "workdir does not exist"
    /\ UNCHANGED <<runInputs, rErrors, rSel, runSched, otherThanRun>>

\* selectJobsToRun, the test for an empty selection, and the choice of the
\* scheduler by --parallel
RunSelect ==
    /\ rpc = "select"
    /\ rSel' = selectJobsToRun(rFlags, rPipe)
    /\ IF rSel' = {}
       THEN /\ rResult' = "no jobs to run"
            /\ rpc' = "done"
            /\ UNCHANGED rMode
       ELSE /\ rMode' \in {"parallel", "sequential"}
            /\ rpc' = "sched"
            /\ UNCHANGED rResult
    /\ UNCHANGED <<runInputs, rErrors, rAsked, rCreated, rRan, otherThanRun>>

\* the scheduler calls createRunner for a selected job: in sequential mode
\* after the previous job's RunJob returned, and an error ends the run
RunBackend(j) ==
    /\ rpc = "sched"
    /\ j \in rSel \ rAsked
    /\ rMode = "sequential" => rRan = rCreated
    /\ rAsked' = rAsked \cup {j}
    /\ \E ok \in BOOLEAN :
        IF ok
        THEN /\ rCreated' = rCreated \cup {j}
             /\ UNCHANGED <<rpc, rResult>>
        ELSE /\ UNCHANGED rCreated
             /\ IF rMode = "sequential"
                THEN rpc' = "done" /\ rResult' = "failed to create runner"
                ELSE UNCHANGED <<rpc, rResult>>
    /\ UNCHANGED <<runInputs, rErrors, rSel, rMode, rRan, otherThanRun>>

\* the scheduler calls RunJob on the backend created for the job; in
\* sequential mode a failed job may end the run
RunSteps(j) ==
    /\ rpc = "sched"
    /\ j \in rCreated \ rRan
    /\ rRan' = rRan \cup {j}
    /\ \E ends \in BOOLEAN :
        IF ends /\ rMode = "sequential"
        THEN rpc' = "done" /\ rResult' = "job failed"
        ELSE UNCHANGED <<rpc, rResult>>
    /\ UNCHANGED <<runInputs, rErrors, rSel, rMode, rAsked, rCreated, otherThanRun>>

\* the scheduler has gone through the jobs and returns to CmdRun
RunReturn ==
    /\ rpc = "sched"
    /\ rAsked = rSel
    /\ rRan = rCreated
    /\ rResult' \in {"nil", "jobs failed"}
    /\ rpc' = "done"
    /\ UNCHANGED <<runInputs, rErrors, rSel, runSched, otherThanRun>>

NextRun ==
    \/ RunParse
    \/ RunWorkdir
    \/ RunSelect
    \/ \E j \in RunJobNames : RunBackend(j)
    \/ \E j \in RunJobNames : RunSteps(j)
    \/ RunReturn

SpecRun == InitRun /\ [][NextRun]_vars

(* --------------------- properties of the run command ------------------- *)
RunKeys == DOMAIN rPipe.Needs
\* job a lists the existing job b in its needs
RunEdge(a, b) == a \in RunKeys /\ b \in RunKeys /\ b \in Range(rPipe.Needs[a])
RECURSIVE RunReach(_, _)
\* the jobs reached from the set S in at most n more edges
RunReach(S, n) ==
    IF n = 0 THEN S
    ELSE RunReach(S \cup {b \in RunKeys : \E a \in S : RunEdge(a, b)}, n - 1)
NeedsCycle ==
    \E j \in RunKeys : j \in RunReach({b \in RunKeys : RunEdge(j, b)}, Cardinality(RunKeys))
DanglingNeed == \E j \in RunKeys : \E n \in Range(rPipe.Needs[j]) : n \notin RunKeys
GraphDefect == RunKeys = {} \/ DanglingNeed \/ NeedsCycle

\* C21: when the pipeline given to the run command has a dangling needs
\* target, a needs cycle or no job at all, createRunner is never called, no
\* backend exists and no RunJob is called, at any point of the run; the run
\* ends with the parse error
C21_DefectAbortsBeforeExecution ==
    GraphDefect =>
        /\ rAsked = {} /\ rCreated = {} /\ rRan = {}
        /\ rpc \in {"parse", "done"}
        /\ rpc = "done" => rResult = "failed to parse pipeline"

\* C21 witness: the run of a pipeline whose only defect is the cycle
\* build -> rebuild -> test -> build has returned
C21_Witness ==
    /\ rpc = "done"
    /\ rPipe.Shape = "ok"
    /\ RunKeys = RunJobNames
    /\ rPipe.Needs = [build |-> <<"rebuild">>, rebuild |-> <<"test">>, test |-> <<"build">>]
    /\ \E e \in rErrors : e.kind = "circular"
    /\ rResult = "failed to parse pipeline"
    /\ rAsked = {}

\* selectJobsToRun has returned
Selected == rpc = "sched" \/ (rpc = "done" /\ rResult \notin {"failed to parse pipeline",
                                                               "workdir does not exist"})
AllRunJobs == DOMAIN rPipe.Needs

\* C28: the filters apply in priority order: with a job-name filter the
\* selection is the job of exactly that name if there is one, else the jobs
\* matching it as a pattern; else with a stage filter the jobs of that stage;
\* else the jobs the only/except lists leave; an empty selection makes the
\* run fail with "no jobs to run" before any backend is created
C28_SelectionPriority ==
    Selected =>
        /\ rSel =
             IF rFlags.job # ""
             THEN IF rFlags.job \in AllRunJobs THEN {rFlags.job}
                  ELSE {n \in AllRunJobs : matchPattern(n, rFlags.job)}
             ELSE IF rFlags.stage # ""
             THEN {n \in AllRunJobs : rPipe.Stage[n] = rFlags.stage}
             ELSE filterJobs(AllRunJobs, rFlags.only, rFlags.except)
        /\ rSel = {} => (rResult = "no jobs to run" /\ rAsked = {})

\* what selectJobsToRun computes: the job-name filter comes first and alone,
\* and without it the only/except lists are applied to the jobs of the
\* stage, or to all jobs when no stage is given
SelectionAsCoded ==
    Selected =>
        /\ rSel =
             IF rFlags.job # ""
             THEN IF rFlags.job \in AllRunJobs THEN {rFlags.job}
                  ELSE {n \in AllRunJobs : matchPattern(n, rFlags.job)}
             ELSE filterJobs(IF rFlags.stage # ""
                             THEN {n \in AllRunJobs : rPipe.Stage[n] = rFlags.stage}
                             ELSE AllRunJobs,
                             rFlags.only, rFlags.except)
        /\ rSel = {} => (rResult = "no jobs to run" /\ rAsked = {})

(* ============================ job name patterns ======================== *)
MatchNames == {"build", "rebuild", "build-all", "test", "unit-test", "deploy"}
MatchPatterns == {"", "build", "build*", "*build", "*", "test*", "*test", "b*d", "re*", "deploy"}

InitMatch ==
    /\ AuxIdle
    /\ CoreIdle
    /\ RunIdle
    /\ DockIdle
    /\ ScriptIdle
    /\ mName \in MatchNames
    /\ mPattern \in MatchPatterns
    /\ mMatch = FALSE
    /\ mpcall = "call"

\* a call of matchPattern(name, pattern)
MatchCall ==
    /\ mpcall = "call"
    /\ mMatch' = matchPattern(mName, mPattern)
    /\ mpcall' = "returned"
    /\ UNCHANGED <<mName, mPattern, otherThanMatch>>

NextMatch == MatchCall

SpecMatch == InitMatch /\ [][NextMatch]_vars

(* ----------------------- properties of the patterns -------------------- *)
HasPrefix(str, prefix) ==
    Len(prefix) <= Len(str) /\ SubSeq(str, 1, Len(prefix)) = prefix
HasSuffix(str, suffix) ==
    Len(suffix) <= Len(str) /\ SubSeq(str, Len(str) - Len(suffix) + 1, Len(str)) = suffix
\* the pattern is p* : the text before its trailing wildcard
TrailingWildcard(pattern) == Len(pattern) >= 1 /\ SubSeq(pattern, Len(pattern), Len(pattern)) = "*"
\* the pattern is *s : the text after its leading wildcard
LeadingWildcard(pattern) == Len(pattern) >= 1 /\ SubSeq(pattern, 1, 1) = "*"

\* C29: matchPattern(name, pattern) is true exactly when the name equals the
\* pattern, or the pattern is p* and the name starts with p, or the pattern
\* is *s and the name ends with s
C29_LeadingOrTrailingWildcardOnly ==
    mpcall = "returned" =>
        (mMatch <=>
            \/ mName = mPattern
            \/ /\ TrailingWildcard(mPattern)
               /\ HasPrefix(mName, SubSeq(mPattern, 1, Len(mPattern) - 1))
            \/ /\ LeadingWildcard(mPattern)
               /\ HasSuffix(mName, SubSeq(mPattern, 2, Len(mPattern))))

\* what matchPattern computes: equality, or, for a pattern with a wildcard
\* anywhere, the pattern without its wildcards occurring anywhere in the name
MatchAsCoded ==
    mpcall = "returned" =>
        (mMatch <=>
            \/ mName = mPattern
            \/ /\ \E k \in 1..Len(mPattern) : SubSeq(mPattern, k, k) = "*"
               /\ \E k \in 0..(Len(mName) - Len(RemoveStars(mPattern))) :
                     SubSeq(mName, k + 1, k + Len(RemoveStars(mPattern)))
                       = RemoveStars(mPattern))

(* ============== containerized backend: container lifecycle ============= *)
\* most RunJob calls made on one DockerRunner
MaxDockerRuns == 2
\* most Cleanup calls made on one DockerRunner
MaxCleanups == 2

DockConfigs == [DryRun : BOOLEAN, PullImages : BOOLEAN]

\* variant: a non-zero exit code is not looked at
ExitError_Ignored(statusCode) == "nil"

\* the test of status.StatusCode after ContainerWait
ExitError(statusCode) ==
    IF statusCode # 0 THEN "container exited with status" ELSE "nil"

\* variant: the loop of Cleanup ends at the first removal that fails
CleanupGoesOn_UntilError(removeOk) == removeOk

\* the loop of Cleanup goes on to the next container after a removal
CleanupGoesOn(removeOk) == TRUE

\* NewDockerRunner returned the instance
InitDock ==
    /\ AuxIdle
    /\ CoreIdle
    /\ RunIdle
    /\ ScriptIdle
    /\ MatchIdle
    /\ kConfig \in DockConfigs
    /\ kpc = "idle"
    /\ kRuns = 0
    /\ kPhase = NoPhase
    /\ kRet = "none"
    /\ kContainers = <<>>
    /\ kBorn = <<>>
    /\ kStop = <<>>
    /\ kRemove = <<>>
    /\ kCleans = 0
    /\ kTodo = <<>>
    /\ kErrs = 0
    /\ kCleanRet = "none"

daemonVars == <<kBorn, kStop, kRemove>>
cleanupVars == <<kCleans, kTodo, kErrs, kCleanRet>>

\* the return of RunJob with err
DockReturn(err) ==
    /\ kRet' = err
    /\ kpc' = "idle"

\* RunJob up to the dry-run test: in dry-run mode dryRunJob prints the steps
\* and RunJob returns nil
DockRunJobBegin ==
    /\ kpc = "idle"
    /\ kRuns < MaxDockerRuns
    /\ kRuns' = kRuns + 1
    /\ kPhase' = NoPhase
    /\ IF kConfig.DryRun
       THEN DockReturn("nil")
       ELSE kRet' = "running" /\ kpc' = "pull"
    /\ UNCHANGED <<kConfig, kContainers, daemonVars, cleanupVars, otherThanDock>>

\* imageExists, and pullImage when the image is missing or PullImages is set
DockPull ==
    /\ kpc = "pull"
    /\ \E imageExists, ok \in BOOLEAN :
        IF kConfig.PullImages \/ ~imageExists
        THEN IF ok
             THEN /\ kPhase' = [kPhase EXCEPT !.pull = "ok"]
                  /\ kpc' = "create"
                  /\ UNCHANGED kRet
             ELSE /\ kPhase' = [kPhase EXCEPT !.pull = "failed"]
                  /\ DockReturn("failed to pull image")
        ELSE /\ ok
             /\ kpc' = "create"
             /\ UNCHANGED <<kPhase, kRet>>
    /\ UNCHANGED <<kConfig, kRuns, kContainers, daemonVars, cleanupVars, otherThanDock>>

\* createContainer, and the append of the new ID to r.containers
DockCreate ==
    /\ kpc = "create"
    /\ \E ok \in BOOLEAN :
        IF ok
        THEN /\ kPhase' = [kPhase EXCEPT !.create = "ok"]
             /\ kContainers' = Append(kContainers, Len(kBorn) + 1)
             /\ kBorn' = Append(kBorn, kCleans)
             /\ kStop' = Append(kStop, 0)
             /\ kRemove' = Append(kRemove, [at |-> 0, force |-> FALSE, ok |-> FALSE])
             /\ kpc' = "start"
             /\ UNCHANGED kRet
        ELSE /\ kPhase' = [kPhase EXCEPT !.create = "failed"]
             /\ DockReturn("failed to create container")
             /\ UNCHANGED <<kContainers, daemonVars>>
    /\ UNCHANGED <<kConfig, kRuns, cleanupVars, otherThanDock>>

\* ContainerStart
DockStart ==
    /\ kpc = "start"
    /\ \E ok \in BOOLEAN :
        IF ok
        THEN /\ kPhase' = [kPhase EXCEPT !.start = "ok"]
             /\ kpc' = "logs"
             /\ UNCHANGED kRet
        ELSE /\ kPhase' = [kPhase EXCEPT !.start = "failed"]
             /\ DockReturn("failed to start container")
    /\ UNCHANGED <<kConfig, kRuns, kContainers, daemonVars, cleanupVars, otherThanDock>>

\* streamLogs: an error is recorded in the summary and RunJob goes on
DockLogs ==
    /\ kpc = "logs"
    /\ \E ok \in BOOLEAN :
        kPhase' = [kPhase EXCEPT !.logs = IF ok THEN "ok" ELSE "failed"]
    /\ kpc' = "wait"
    /\ UNCHANGED <<kConfig, kRuns, kRet, kContainers, daemonVars, cleanupVars, otherThanDock>>

\* ContainerWait and the select on its two channels
DockWait ==
    /\ kpc = "wait"
    /\ \/ /\ kPhase' = [kPhase EXCEPT !.wait = "failed"]
          /\ DockReturn("container wait error")
       \/ \E statusCode \in {0, 1} :
            /\ kPhase' = [kPhase EXCEPT !.wait = IF statusCode = 0 THEN "exit0" ELSE "exitN"]
            /\ DockReturn(ExitError(statusCode))
    /\ UNCHANGED <<kConfig, kRuns, kContainers, daemonVars, cleanupVars, otherThanDock>>

\* Cleanup up to the loop: nothing tracked returns nil at once, else the
\* tracked IDs are copied
DockCleanupBegin ==
    /\ kpc = "idle"
    /\ kCleans < MaxCleanups
    /\ kCleans' = kCleans + 1
    /\ IF Len(kContainers) = 0
       THEN /\ kCleanRet' = "nil"
            /\ UNCHANGED <<kpc, kTodo, kErrs>>
       ELSE /\ kTodo' = kContainers
            /\ kErrs' = 0
            /\ kCleanRet' = "running"
            /\ kpc' = "cleaning"
    /\ UNCHANGED <<kConfig, kRuns, kPhase, kRet, kContainers, daemonVars, otherThanDock>>

\* one pass of the loop of Cleanup: ContainerStop, whose error is dropped,
\* then ContainerRemove with Force, whose error is collected
DockCleanupOne ==
    /\ kpc = "cleaning"
    /\ kTodo # <<>>
    /\ LET id == Head(kTodo)
       IN  /\ kStop' = [kStop EXCEPT ![id] = kCleans]
           /\ \E removeOk \in BOOLEAN :
                /\ kRemove' = [kRemove EXCEPT
                                 ![id] = [at |-> kCleans, force |-> TRUE, ok |-> removeOk]]
                /\ kErrs' = IF removeOk THEN kErrs ELSE kErrs + 1
                /\ kTodo' = IF CleanupGoesOn(removeOk) THEN Tail(kTodo) ELSE <<>>
    /\ UNCHANGED <<kConfig, kpc, kRuns, kPhase, kRet, kContainers, kBorn, kCleans, kCleanRet,
                   otherThanDock>>

\* variant: a container whose removal failed stays tracked
TrackedAfterCleanup_KeepFailed(tracked) == SelectSeq(tracked, LAMBDA id : ~kRemove[id].ok)

\* r.containers after the loop of Cleanup
TrackedAfterCleanup(tracked) == <<>>

\* Cleanup after the loop: the list is cleared and the errors are counted
DockCleanupEnd ==
    /\ kpc = "cleaning"
    /\ kTodo = <<>>
    /\ kContainers' = TrackedAfterCleanup(kContainers)
    /\ kCleanRet' = IF kErrs > 0 THEN "cleanup completed with errors" ELSE "nil"
    /\ kpc' = "idle"
    /\ UNCHANGED <<kConfig, kRuns, kPhase, kRet, daemonVars, kCleans, kTodo, kErrs,
                   otherThanDock>>

NextDock ==
    \/ DockRunJobBegin
    \/ DockPull
    \/ DockCreate
    \/ DockStart
    \/ DockLogs
    \/ DockWait
    \/ DockCleanupBegin
    \/ DockCleanupOne
    \/ DockCleanupEnd

SpecDock == InitDock /\ [][NextDock]_vars

(* ------------------- properties of the container lifecycle ------------- *)
Created == 1..Len(kBorn)
\* a Cleanup called after the container was created has returned
CleanedSince(id) == kCleans > kBorn[id] /\ kpc # "cleaning"
RunJobDone == kRet \notin {"none", "running"}

\* C23: every container the instance created has had, once the next Cleanup
\* of the instance returned, a stop and a forced removal attempted on it by
\* that Cleanup, whatever became of its start, its logs and its wait and
\* whether or not another removal failed; a created container not yet
\* given to a Cleanup is tracked
C23_EveryContainerCleanedUp ==
    \A id \in Created :
        /\ CleanedSince(id) =>
              /\ kStop[id] = kBorn[id] + 1
              /\ kRemove[id].at = kBorn[id] + 1
              /\ kRemove[id].force
        /\ kCleans = kBorn[id] => \E k \in 1..Len(kContainers) : kContainers[k] = id

\* C23 witness: the first container never started, its removal failed, and
\* the same Cleanup went on to stop and remove the second
C23_Witness ==
    /\ Len(kBorn) = 2
    /\ kBorn = <<0, 0>>
    /\ kpc = "idle"
    /\ kCleans = 1
    /\ kRemove[1] = [at |-> 1, force |-> TRUE, ok |-> FALSE]
    /\ kRemove[2] = [at |-> 1, force |-> TRUE, ok |-> TRUE]
    /\ kCleanRet = "cleanup completed with errors"
    /\ kContainers = <<>>

\* no container was created between the last Cleanup call and the one before
NothingCreatedSincePrevious == \A id \in Created : kBorn[id] # kCleans - 1

\* C38: once Cleanup has returned, the tracked list holds only containers
\* created since, whether or not a removal failed; a Cleanup that follows
\* another with no container created in between makes no stop and no remove
\* call and returns nil
C38_SecondCleanupDoesNothing ==
    /\ (kCleans >= 1 /\ kpc # "cleaning") =>
          \A id \in Created :
              (\E k \in 1..Len(kContainers) : kContainers[k] = id) <=> kBorn[id] = kCleans
    /\ (kCleans >= 2 /\ NothingCreatedSincePrevious) =>
          /\ kpc # "cleaning"
          /\ kCleanRet = "nil"
          /\ \A id \in Created : kStop[id] # kCleans /\ kRemove[id].at # kCleans

\* C38 witness: the first Cleanup failed to remove a container and returned
\* an error; the second, right after it, found nothing tracked, returned nil
\* and left the container alone
C38_Witness ==
    /\ kCleans = 2
    /\ kpc = "idle"
    /\ Len(kBorn) >= 1
    /\ NothingCreatedSincePrevious
    /\ kRemove[1] = [at |-> 1, force |-> TRUE, ok |-> FALSE]
    /\ kStop[1] = 1
    /\ kContainers = <<>>
    /\ kCleanRet = "nil"

\* C24: outside dry-run RunJob returns nil exactly when the container was
\* created, started and waited for and exited with code 0; a pull, create,
\* start or wait failure or a non-zero exit code makes it return an error;
\* and after a phase that failed no later phase is performed
C24_SuccessIffCleanExit ==
    ~kConfig.DryRun =>
        /\ RunJobDone =>
              /\ kRet = "nil" <=>
                    (kPhase.create = "ok" /\ kPhase.start = "ok" /\ kPhase.wait = "exit0")
              /\ ("failed" \in {kPhase.pull, kPhase.create, kPhase.start, kPhase.wait}
                    \/ kPhase.wait = "exitN") => kRet # "nil"
        /\ kPhase.pull = "failed" => kPhase.create = "none"
        /\ kPhase.create # "ok" => kPhase.start = "none"
        /\ kPhase.start # "ok" => (kPhase.logs = "none" /\ kPhase.wait = "none")
        /\ kPhase.wait = "failed" => RunJobDone

\* C24 witness: a job whose container exited with a non-zero code was
\* reported as failed, pulled image and all
C24_Witness ==
    /\ ~kConfig.DryRun
    /\ kPhase = [pull |-> "ok", create |-> "ok", start |-> "ok", logs |-> "ok",
                 wait |-> "exitN"]
    /\ kRet = "container exited with status"

(* =============== containerized backend: the generated script =========== *)
\* most steps of a job given to buildJobScript
MaxScriptSteps == 2

\* the empty map
NoMap == <<>>
\* the variable a step may export, and its value in the container's own
\* environment
StepEnvKey == "TOKEN"
ContainerEnv == [k \in {StepEnvKey} |-> "from-container"]

\* steps using an action (the run text, if any, and the parameters differ),
\* shell-command steps (environment overlay, continue-on-error and working
\* directory differ), and the step with neither
ScriptSteps ==
    [Name : {"step"}, Uses : {"actions/checkout@v4"}, Run : {"", "make"},
     With : {NoMap, [k \in {"fetch-depth"} |-> "0"]}, Env : {NoMap},
     ContinueOnErr : {FALSE}, WorkingDir : {""}]
    \cup [Name : {"step"}, Uses : {""}, Run : {"make"}, With : {NoMap},
          Env : {NoMap, [k \in {StepEnvKey} |-> "from-step"]},
          ContinueOnErr : BOOLEAN, WorkingDir : {"", "sub"}]
    \cup [Name : {"step"}, Uses : {""}, Run : {""}, With : {NoMap}, Env : {NoMap},
          ContinueOnErr : {FALSE}, WorkingDir : {""}]

ScriptJobs == [Steps : SeqsOf(ScriptSteps, 0, MaxScriptSteps)]

\* one element of commands: the text, what the shell takes the line for,
\* the step it was appended for (0 = none) and, for an export, <<key, value>>
Line(kind, i, text, arg) == [kind |-> kind, step |-> i, text |-> text, arg |-> arg]

\* strings.Repeat("-", 60)
Rule60 == "------------------------------------------------------------"

\* the three marker lines of a step
MarkerLines(step, i, stepNum, total) ==
    <<Line("echo", i, "echo ''", <<>>),
      Line("echo", i, "echo '[" \o ToString(stepNum) \o "/" \o ToString(total) \o "] "
                      \o step.Name \o "'", <<>>),
      Line("echo", i, "echo '" \o Rule60 \o "'", <<>>)>>

\* the lines of a step using an action
UsesLines(step, i, stepNum, total) ==
    MarkerLines(step, i, stepNum, total)
    \o <<Line("echo", i, "echo 'Skipping action: " \o step.Name
                         \o " (not supported in Docker runner)'", <<>>)>>

\* the export lines of a step, one per entry of step.Env
ExportLines(step, i) ==
    IF step.Env = NoMap THEN <<>>
    ELSE <<Line("export", i, "export " \o StepEnvKey \o "='" \o step.Env[StepEnvKey] \o "'",
                <<StepEnvKey, step.Env[StepEnvKey]>>)>>

\* the lines of a shell-command step
RunLines(step, i, stepNum, total) ==
    MarkerLines(step, i, stepNum, total)
    \o (IF step.WorkingDir # ""
        THEN <<Line("cd", i, "cd " \o step.WorkingDir, <<>>)>> ELSE <<>>)
    \o ExportLines(step, i)
    \o <<Line("run", i, step.Run, <<>>)>>
    \o (IF step.ContinueOnErr THEN <<Line("orTrue", i, "|| true", <<>>)>> ELSE <<>>)
    \o <<Line("echo", i, "echo 'Step completed'", <<>>)>>
    \o (IF step.WorkingDir # ""
        THEN <<Line("cd", i, "cd /workspace", <<>>)>> ELSE <<>>)

\* variant: the loop does not `continue` after the lines of an action step
StepLines_NoContinue(step, i, stepNum, total) ==
    IF step.Uses # ""
    THEN UsesLines(step, i, stepNum, total)
         \o (IF step.Run # "" THEN RunLines(step, i, stepNum, total) ELSE <<>>)
    ELSE IF step.Run = "" THEN <<>>
    ELSE RunLines(step, i, stepNum, total)

\* one pass of the loop over job.Steps; stepNum is the value after stepNum++
StepLines(step, i, stepNum, total) ==
    IF step.Uses # "" THEN UsesLines(step, i, stepNum, total)
    ELSE IF step.Run = "" THEN <<>>
    ELSE RunLines(step, i, stepNum, total)

RECURSIVE ScriptFrom(_, _, _)
\* the loop over job.Steps from step i on, stepNum steps counted so far
ScriptFrom(stepList, i, stepNum) ==
    IF i > Len(stepList) THEN <<>>
    ELSE LET step == stepList[i]
             counted == step.Uses # "" \/ step.Run # ""
             n == IF counted THEN stepNum + 1 ELSE stepNum
         IN  StepLines(step, i, n, Len(stepList)) \o ScriptFrom(stepList, i + 1, n)

\* buildJobScript: the elements of commands, which strings.Join puts on
\* lines of their own
buildJobScript(job, verbose) ==
    <<Line("comment", 0, "#!/bin/sh", <<>>), Line("set", 0, "set -e", <<>>)>>
    \o (IF verbose THEN <<Line("set", 0, "set -x", <<>>)>> ELSE <<>>)
    \o <<Line("blank", 0, "", <<>>),
         Line("echo", 0, "echo 'Setting up environment...'", <<>>),
         Line("blank", 0, "", <<>>)>>
    \o ScriptFrom(job.Steps, 1, 0)
    \o <<Line("blank", 0, "", <<>>),
         Line("echo", 0, "echo ''", <<>>),
         Line("echo", 0, "echo 'All steps completed successfully!'", <<>>)>>

InitScript ==
    /\ AuxIdle
    /\ CoreIdle
    /\ RunIdle
    /\ DockIdle
    /\ MatchIdle
    /\ bJob \in ScriptJobs
    /\ bVerbose \in BOOLEAN
    /\ bpc = "build"
    /\ bScript = <<>>
    /\ bLine = 0
    /\ bEnv = <<>>
    /\ bOut = <<>>
    /\ bExit = "none"

scriptInputs == <<bJob, bVerbose>>

\* createContainer: the script is built and made the command of the
\* container, /bin/sh -c script, whose environment is buildEnvironment's
ScriptBuild ==
    /\ bpc = "build"
    /\ bScript' = buildJobScript(bJob, bVerbose)
    /\ bLine' = 1
    /\ bEnv' = ContainerEnv
    /\ bExit' = "running"
    /\ bpc' = "shell"
    /\ UNCHANGED <<scriptInputs, bOut, otherThanScript>>

\* the shell stops with the given status
ShellExit(status) ==
    /\ bExit' = status
    /\ bpc' = "exited"
    /\ UNCHANGED bLine

\* the shell goes on to the next line
ShellGoesOn ==
    /\ bLine' = bLine + 1
    /\ UNCHANGED <<bpc, bExit>>

\* the shell reads and executes the next line, under set -e: a command that
\* exits non-zero ends the shell with that status, and a line that begins
\* with || is a syntax error, which ends the shell with status 2
ShellLine ==
    /\ bpc = "shell"
    /\ bLine <= Len(bScript)
    /\ LET line == bScript[bLine]
       IN  CASE line.kind \in {"comment", "set", "blank", "echo"} ->
                  /\ ShellGoesOn
                  /\ UNCHANGED <<bEnv, bOut>>
             [] line.kind = "export" ->
                  /\ bEnv' = [bEnv EXCEPT ![line.arg[1]] = line.arg[2]]
                  /\ ShellGoesOn
                  /\ UNCHANGED bOut
             [] line.kind = "cd" ->
                  /\ \E ok \in BOOLEAN : IF ok THEN ShellGoesOn ELSE ShellExit(1)
                  /\ UNCHANGED <<bEnv, bOut>>
             [] line.kind = "run" ->
                  /\ \E code \in {0, 1} :
                        /\ bOut' = Append(bOut, [step |-> line.step, env |-> bEnv,
                                                 code |-> code])
                        /\ IF code = 0 THEN ShellGoesOn ELSE ShellExit(code)
                  /\ UNCHANGED bEnv
             [] line.kind = "orTrue" ->
                  /\ ShellExit(2)
                  /\ UNCHANGED <<bEnv, bOut>>
    /\ UNCHANGED <<scriptInputs, bScript, otherThanScript>>

\* the shell has read the last line
ShellEnd ==
    /\ bpc = "shell"
    /\ bLine > Len(bScript)
    /\ bExit' = 0
    /\ bpc' = "exited"
    /\ UNCHANGED <<scriptInputs, bScript, bLine, bEnv, bOut, otherThanScript>>

NextScript ==
    \/ ScriptBuild
    \/ ShellLine
    \/ ShellEnd

SpecScript == InitScript /\ [][NextScript]_vars

(* -------------------- properties of the generated script --------------- *)
ScriptStepIds == 1..Len(bJob.Steps)
\* the lines appended for step i, in order
LinesOf(i) == SelectSeq(bScript, LAMBDA l : l.step = i)
\* the shell ran the command of step i
ShellRan(i) == \E k \in 1..Len(bOut) : bOut[k].step = i
ShellRanWith(i, code) == \E k \in 1..Len(bOut) : bOut[k].step = i /\ bOut[k].code = code
IsCommandStep(i) == bJob.Steps[i].Uses = "" /\ bJob.Steps[i].Run # ""

\* C25: a step using an action contributes to the script its three marker
\* lines and the "Skipping action" line and nothing else: no line carries
\* its run text, its parameters appear nowhere, and the shell never runs a
\* command for it
C25_UsesStepOnlyLogged ==
    bpc # "build" =>
        \A i \in ScriptStepIds : bJob.Steps[i].Uses # "" =>
            /\ Len(LinesOf(i)) = 4
            /\ \A k \in 1..4 : LinesOf(i)[k].kind = "echo"
            /\ LinesOf(i)[4].text
                  = "echo 'Skipping action: step (not supported in Docker runner)'"
            /\ \A k \in 1..Len(bScript) :
                  bScript[k].step = i => bScript[k].text # bJob.Steps[i].Run
            /\ ~ShellRan(i)

\* C25 witness: the shell ran to the end a script whose first step uses an
\* action and has a run text, and whose second step is a command
C25_Witness ==
    /\ bpc = "exited"
    /\ bExit = 0
    /\ Len(bJob.Steps) = 2
    /\ bJob.Steps[1].Uses # "" /\ bJob.Steps[1].Run = "make"
    /\ bJob.Steps[1].With # NoMap
    /\ IsCommandStep(2)
    /\ ShellRan(2) /\ ~ShellRan(1)

\* C26: when the command of a step marked continue-on-error exits non-zero
\* the script does not stop: the command of the next command step, when it
\* changes no directory, is run
C26_ContinueOnErrorSuffixWorks ==
    bpc = "exited" =>
        \A i, j \in ScriptStepIds :
            (/\ j = i + 1
             /\ IsCommandStep(i) /\ bJob.Steps[i].ContinueOnErr
             /\ ShellRanWith(i, 1)
             /\ IsCommandStep(j) /\ bJob.Steps[j].WorkingDir = "")
                => ShellRan(j)

\* C27: a variable exported for step i from its environment overlay is not
\* visible to the command of a later step that does not declare it
C27_ExportsScopedToStep ==
    \A k \in 1..Len(bOut) :
        LET j == bOut[k].step
        IN  \A i \in 1..(j - 1) :
                (/\ IsCommandStep(i)
                 /\ bJob.Steps[i].Env # NoMap
                 /\ bJob.Steps[j].Env = NoMap)
                    => bOut[k].env[StepEnvKey] # bJob.Steps[i].Env[StepEnvKey]


(* ============ the parsers: steps of the converted pipeline ============= *)
\* everything of the earlier sections is at rest
BaseIdle == CoreIdle /\ RunIdle /\ DockIdle /\ ScriptIdle /\ MatchIdle

\* [a-zA-Z0-9\-_]
NameChars ==
    LET cs == "abcdefghijklmnopqrstuvwxyzABCDEFGHIJKLMNOPQRSTUVWXYZ0123456789-_"
    IN  {SubSeq(cs, i, i) : i \in 1..Len(cs)}

\* every character of str[lo..hi] is in cs, and there is at least one
AllIn(str, lo, hi, cs) ==
    /\ lo <= hi
    /\ \A i \in lo..hi : SubSeq(str, i, i) \in cs

\* ^[a-zA-Z0-9\-_]+/[a-zA-Z0-9\-_]+(/[a-zA-Z0-9\-_/]+)?@.+$
MatchesActionPattern(uses) ==
    \E at \in 1..Len(uses) :
        /\ SubSeq(uses, at, at) = "@"
        /\ at < Len(uses)
        /\ \E s1 \in 1..(at - 1) :
              /\ SubSeq(uses, s1, s1) = "/"
              /\ AllIn(uses, 1, s1 - 1, NameChars)
              /\ \/ AllIn(uses, s1 + 1, at - 1, NameChars)
                 \/ \E s2 \in (s1 + 1)..(at - 1) :
                       /\ SubSeq(uses, s2, s2) = "/"
                       /\ AllIn(uses, s1 + 1, s2 - 1, NameChars)
                       /\ AllIn(uses, s2 + 1, at - 1, NameChars \cup {"/"})

\* validateActionReference returns nil
validateActionReference(uses) ==
    \/ HasPrefix(uses, "docker://")
    \/ HasPrefix(uses, "./")
    \/ HasPrefix(uses, "../")
    \/ MatchesActionPattern(uses)

\* strings.Join(lines, "\n")
RECURSIVE JoinLines(_)
JoinLines(lines) ==
    IF lines = <<>> THEN ""
    ELSE IF Len(lines) = 1 THEN lines[1]
    ELSE lines[1] \o "\n" \o JoinLines(Tail(lines))

\* a types.Step, by its execution fields
PStep(run, uses, script, cont) ==
    [Run |-> run, Uses |-> uses, Script |-> script, ContinueOnErr |-> cont]

(* ------------------------------ inputs --------------------------------- *)
\* the steps of a GitHub job as decoded
GhSteps == [Run : {"", "make test"}, Uses : {"", "actions/checkout@v4", "./local", "checkout"}]

\* a GitHub job: its own uses reference (a reusable workflow) and its steps
GhDocs ==
    [Name : {"", "ci"},
     JobUses : {"", "octo/flows/ci@main", "octo/flows/.github/workflows/ci.yml@main"},
     Steps : SeqsOf(GhSteps, 0, 2)]

\* a script list as decoded; the last one has more than five commands
GlScripts ==
    {<<>>, <<"make">>, <<"make", "make test">>, <<"">>,
     <<"a", "b", "c", "d", "e", "f">>}

\* a GitLab job with the top-level before_script and after_script
GlDocs ==
    [BeforeScript : {<<>>, <<"setup">>}, Script : GlScripts, AfterScript : {<<>>, <<"report">>},
     GlobalBefore : {<<>>, <<"login">>}, GlobalAfter : {<<>>, <<"logout">>},
     Trigger : BOOLEAN]

(* ----------------------------- conversion ------------------------------ *)
\* GithubParser.convertSteps: run and uses are copied as decoded
convertSteps(ghSteps) ==
    [i \in 1..Len(ghSteps) |-> PStep(ghSteps[i].Run, ghSteps[i].Uses, <<>>, FALSE)]

\* GithubParser.parseReusableWorkflow: one step carrying the job's reference
parseReusableWorkflow(doc) == <<PStep("", doc.JobUses, <<>>, FALSE)>>

\* the steps of the job GithubParser.convertToPipeline builds
GithubSteps(doc) ==
    IF doc.JobUses # "" THEN parseReusableWorkflow(doc) ELSE convertSteps(doc.Steps)

\* the step convertScriptsToSteps builds from a list of commands
ScriptStep(lines, cont) == PStep(JoinLines(lines), "", lines, cont)

\* GitlabParser.convertScriptsToSteps
convertScriptsToSteps(doc) ==
    LET beforeScript == IF Len(doc.BeforeScript) = 0 /\ Len(doc.GlobalBefore) > 0
                        THEN doc.GlobalBefore ELSE doc.BeforeScript
        afterScript == IF Len(doc.AfterScript) = 0 /\ Len(doc.GlobalAfter) > 0
                       THEN doc.GlobalAfter ELSE doc.AfterScript
        mainScript == doc.Script
        before == IF Len(beforeScript) > 0 THEN <<ScriptStep(beforeScript, FALSE)>> ELSE <<>>
        main == IF Len(mainScript) > 5
                THEN <<ScriptStep(mainScript, FALSE)>>
                ELSE [i \in 1..Len(mainScript) |-> ScriptStep(<<mainScript[i]>>, FALSE)]
        after == IF Len(afterScript) > 0 THEN <<ScriptStep(afterScript, TRUE)>> ELSE <<>>
    IN  before \o main \o after

(* ----------------------------- validation ------------------------------ *)
\* the errors GithubParser.Validate collects on the name and the steps
GithubStepErrors(doc, stepsOut) ==
    (IF doc.Name = "" THEN {<<"no name", 0>>} ELSE {})
    \cup (IF Len(stepsOut) = 0 THEN {<<"no steps", 0>>} ELSE {})
    \cup {<<"neither", i>> : i \in {k \in 1..Len(stepsOut) :
                                      stepsOut[k].Run = "" /\ stepsOut[k].Uses = ""}}
    \cup {<<"both", i>> : i \in {k \in 1..Len(stepsOut) :
                                   stepsOut[k].Run # "" /\ stepsOut[k].Uses # ""}}
    \cup {<<"reference", i>> : i \in {k \in 1..Len(stepsOut) :
                                        /\ stepsOut[k].Uses # ""
                                        /\ ~validateActionReference(stepsOut[k].Uses)}}

\* the errors GitlabParser.Validate collects on the steps
GitlabStepErrors(doc, stepsOut) ==
    IF Len(stepsOut) = 0 /\ ~doc.Trigger THEN {<<"no steps or trigger", 0>>} ELSE {}

(* ------------------------------- Parse --------------------------------- *)
InitConv ==
    /\ BaseIdle
    /\ StreamIdle
    /\ StepIdle
    /\ InclIdle
    /\ \/ qKind = "github" /\ qDoc \in GhDocs
       \/ qKind = "gitlab" /\ qDoc \in GlDocs
    /\ qpc = "convert"
    /\ qSteps = <<>>
    /\ qRet = "running"

\* Parse up to the converted pipeline: convertToPipeline
ParseConvert ==
    /\ qpc = "convert"
    /\ UNCHANGED otherThanConv
    /\ qSteps' = IF qKind = "github" THEN GithubSteps(qDoc) ELSE convertScriptsToSteps(qDoc)
    /\ qpc' = "validate"
    /\ UNCHANGED <<qKind, qDoc, qRet>>

\* the end of Parse: Validate, then the pipeline or the error
ParseValidate ==
    /\ qpc = "validate"
    /\ UNCHANGED otherThanConv
    /\ LET errors == IF qKind = "github" THEN GithubStepErrors(qDoc, qSteps)
                     ELSE GitlabStepErrors(qDoc, qSteps)
       IN  qRet' = IF errors # {} THEN "error" ELSE "pipeline"
    /\ qpc' = "done"
    /\ UNCHANGED <<qKind, qDoc, qSteps>>

NextConv ==
    \/ ParseConvert
    \/ ParseValidate

SpecConv == InitConv /\ [][NextConv]_vars

(* ==================== properties of the parsers ======================== *)
\* the execution directives a step has set
Directives(step) ==
    (IF step.Run # "" THEN {"run"} ELSE {})
    \cup (IF step.Uses # "" THEN {"uses"} ELSE {})
    \cup (IF Len(step.Script) > 0 THEN {"script"} ELSE {})

\* C32: every step of a pipeline a parser hands out has exactly one
\* execution directive set among run, uses and script
C32_ExactlyOneDirective ==
    qRet = "pipeline" =>
        \A i \in 1..Len(qSteps) : Cardinality(Directives(qSteps[i])) = 1

\* what the parsers hand out: a GitHub step has exactly one of run and
\* uses, a GitLab step has the script list and, unless every command is
\* empty, the run text as well
StepsAsConverted ==
    qRet = "pipeline" =>
        \A i \in 1..Len(qSteps) :
            /\ qKind = "github" => Cardinality(Directives(qSteps[i])) = 1
            /\ qKind = "gitlab" =>
                  /\ "script" \in Directives(qSteps[i])
                  /\ qSteps[i].Run = JoinLines(qSteps[i].Script)


(* ========== process backend: executeCommand and its two readers ======== *)
\* lines a subprocess writes to one stream
MaxLines == 3
\* lines a pipe holds before a write to it blocks
PipeCapacity == 1

Streams == {"stdout", "stderr"}

\* a line is shorter than bufio.MaxScanTokenSize, or not
LineSizes == {"short", "long"}

\* scanner.Scan gives up on the line: bufio.ErrTooLong
TooLong(size) == size = "long"

\* the buffer executeCommand hands to the reader of a stream
CaptureOf(stream) == IF stream = "stdout" THEN "stdoutBuf" ELSE "stderrBuf"
Captures == {CaptureOf(st) : st \in Streams}

OutLine(stream, n, size) == <<stream, n, size>>

InitStream ==
    /\ BaseIdle
    /\ ConvIdle
    /\ StepIdle
    /\ InclIdle
    /\ oEmit \in [Streams -> SeqsOf(LineSizes, 0, MaxLines)]
    /\ oSent = [st \in Streams |-> 0]
    /\ oPipe = [st \in Streams |-> <<>>]
    /\ oExited = FALSE
    /\ oReader = [st \in Streams |-> "none"]
    /\ oBuf = [b \in Captures |-> <<>>]
    /\ oWriters = [b \in Captures |-> {}]
    /\ oConsole = <<>>
    /\ opc = "start"
    /\ oRet = "none"

procVars == <<oSent, oPipe, oExited>>
readVars == <<oReader, oBuf, oWriters, oConsole>>

\* StdoutPipe, StderrPipe and cmd.Start, then the two goroutines
ExecStart ==
    /\ opc = "start"
    /\ UNCHANGED otherThanStream
    /\ \E started \in BOOLEAN :
          IF started
          THEN /\ oReader' = [st \in Streams |-> "scanning"]
               /\ opc' = "wgwait"
               /\ UNCHANGED oRet
          ELSE /\ oRet' = "failed to start command"
               /\ opc' = "returned"
               /\ UNCHANGED oReader
    /\ UNCHANGED <<oEmit, procVars, oBuf, oWriters, oConsole>>

\* the subprocess writes its next line to a stream; the write waits while
\* the pipe is full
ProcWrite(st) ==
    /\ opc \in {"wgwait", "cmdwait"}
    /\ UNCHANGED otherThanStream
    /\ ~oExited
    /\ oSent[st] < Len(oEmit[st])
    /\ Len(oPipe[st]) < PipeCapacity
    /\ oSent' = [oSent EXCEPT ![st] = @ + 1]
    /\ oPipe' = [oPipe EXCEPT ![st] = Append(@, OutLine(st, oSent[st] + 1, oEmit[st][oSent[st] + 1]))]
    /\ UNCHANGED <<oEmit, oExited, readVars, opc, oRet>>

\* the subprocess has written everything and exits
ProcExit ==
    /\ opc \in {"wgwait", "cmdwait"}
    /\ UNCHANGED otherThanStream
    /\ ~oExited
    /\ \A st \in Streams : oSent[st] = Len(oEmit[st])
    /\ oExited' = TRUE
    /\ UNCHANGED <<oEmit, oSent, oPipe, readVars, opc, oRet>>

\* one pass of streamOutput's loop: scanner.Scan, PrintOutput, WriteString;
\* on a line the scanner cannot hold, Scan returns false and the goroutine ends
ReadLine(st) ==
    /\ oReader[st] = "scanning"
    /\ UNCHANGED otherThanStream
    /\ oPipe[st] # <<>>
    /\ LET line == Head(oPipe[st])
       IN  /\ oPipe' = [oPipe EXCEPT ![st] = Tail(@)]
           /\ IF TooLong(line[3])
              THEN /\ oReader' = [oReader EXCEPT ![st] = "toolong"]
                   /\ UNCHANGED <<oBuf, oWriters, oConsole>>
              ELSE /\ oConsole' = Append(oConsole, line)
                   /\ oBuf' = [oBuf EXCEPT ![CaptureOf(st)] = Append(@, line)]
                   /\ oWriters' = [oWriters EXCEPT ![CaptureOf(st)] = @ \cup {st}]
                   /\ UNCHANGED oReader
    /\ UNCHANGED <<oEmit, oSent, oExited, opc, oRet>>

\* scanner.Scan finds the stream closed and empty: the goroutine ends
ReadEOF(st) ==
    /\ oReader[st] = "scanning"
    /\ UNCHANGED otherThanStream
    /\ oPipe[st] = <<>>
    /\ oExited
    /\ oReader' = [oReader EXCEPT ![st] = "eof"]
    /\ UNCHANGED <<oEmit, procVars, oBuf, oWriters, oConsole, opc, oRet>>

\* wg.Wait returns: both goroutines have called wg.Done
WgWait ==
    /\ opc = "wgwait"
    /\ UNCHANGED otherThanStream
    /\ \A st \in Streams : oReader[st] \in {"eof", "toolong"}
    /\ opc' = "cmdwait"
    /\ UNCHANGED <<oEmit, procVars, readVars, oRet>>

\* cmd.Wait returns once the subprocess has exited
CmdWait ==
    /\ opc = "cmdwait"
    /\ UNCHANGED otherThanStream
    /\ oExited
    /\ \E exitOK \in BOOLEAN : oRet' = IF exitOK THEN "nil" ELSE "command failed"
    /\ opc' = "returned"
    /\ UNCHANGED <<oEmit, procVars, readVars>>

NextStream ==
    \/ ExecStart
    \/ \E st \in Streams : ProcWrite(st)
    \/ ProcExit
    \/ \E st \in Streams : ReadLine(st)
    \/ \E st \in Streams : ReadEOF(st)
    \/ WgWait
    \/ CmdWait

SpecStream == InitStream /\ [][NextStream]_vars

(* ================= properties of the output streaming ================== *)
\* the lines the subprocess writes to a stream during its whole life
Emitted(st) == [n \in 1..Len(oEmit[st]) |-> OutLine(st, n, oEmit[st][n])]
Started == opc \in {"wgwait", "cmdwait"} \/ (opc = "returned" /\ oRet # "failed to start command")

\* C33: for every interleaving of the two readers, each reader writes only
\* to its own buffer, the buffer holds its stream's lines in emission order
\* and, when executeCommand returns, all of them; executeCommand waits for
\* the process only after both readers have reached the end of their stream
C33_ReadersCaptureEachStream ==
    Started =>
        /\ \A st \in Streams :
              /\ oWriters[CaptureOf(st)] \subseteq {st}
              /\ IsPrefix(oBuf[CaptureOf(st)], Emitted(st))
        /\ opc \in {"cmdwait", "returned"} => \A st \in Streams : oReader[st] = "eof"
        /\ opc = "returned" => \A st \in Streams : oBuf[CaptureOf(st)] = Emitted(st)

\* what the two readers do: each writes only to its own buffer, which holds
\* the lines of its stream in order up to the first line the scanner cannot
\* hold; executeCommand waits for the process after both goroutines ended;
\* when no line is too long, the buffers hold everything at the return
StreamAsCoded ==
    Started =>
        /\ \A st \in Streams :
              /\ oWriters[CaptureOf(st)] \subseteq {st}
              /\ IsPrefix(oBuf[CaptureOf(st)], Emitted(st))
              /\ \A k \in 1..Len(oBuf[CaptureOf(st)]) : ~TooLong(oBuf[CaptureOf(st)][k][3])
              /\ SelectSeq(oConsole, LAMBDA l : l[1] = st) = oBuf[CaptureOf(st)]
        /\ opc \in {"cmdwait", "returned"} =>
              \A st \in Streams : oReader[st] \in {"eof", "toolong"}
        /\ (opc = "returned" /\ \A st \in Streams : \A n \in 1..Len(oEmit[st]) : ~TooLong(oEmit[st][n]))
              => \A st \in Streams : oReader[st] = "eof" /\ oBuf[CaptureOf(st)] = Emitted(st)

\* a reader has given up, the subprocess waits on the full pipe with a line
\* still to write, and executeCommand waits for the subprocess to exit
StreamStuck ==
    /\ opc = "cmdwait"
    /\ ~oExited
    /\ \E st \in Streams :
          /\ oReader[st] = "toolong"
          /\ Len(oPipe[st]) = PipeCapacity
          /\ oSent[st] < Len(oEmit[st])


(* ========== process backend: RunStep on a shell-command step =========== *)
\* absWorkdir of RunJob
JobWorkdir == "/repo"

\* step.WorkingDir
WorkingDirs == {"", "sub", "/abs"}

\* exit statuses of a failed subprocess
FailCodes == {1, 2}

\* shell-command steps, by what RunStep reads to build and run the command
ShellSteps ==
    [Run : {"make test"}, WorkingDir : WorkingDirs, TimeoutMin : {0, 5},
     RetryPolicy : RetryPolicies]

\* filepath.Join on a clean first element
PathJoin(dir, elem) ==
    IF HasPrefix(elem, "/") THEN dir \o elem ELSE dir \o "/" \o elem

\* the directory RunStep gives the command it builds first
InitialDir(step, workdir) ==
    IF step.WorkingDir # "" THEN PathJoin(workdir, step.WorkingDir) ELSE workdir

\* the directory of the command RunStep hands on: the command is built anew
\* when the step has a timeout
PreparedDir(step, workdir) ==
    IF step.TimeoutMin > 0 THEN workdir ELSE InitialDir(step, workdir)

\* a nil error
NilError == [msg |-> "nil"]

\* the error executeCommand returns for a failed subprocess
CommandError(n, code) == [msg |-> "command failed", attempt |-> n, exit |-> code]

\* variant: lastErr keeps the first error
RecordErr_KeepFirst(lastErr, err) == IF lastErr = NilError THEN err ELSE lastErr

\* lastErr after a failed attempt
RecordErr(lastErr, err) == err

\* the error executeWithRetry returns after its loop
RetryError(maxAttempts, lastErr) ==
    [msg |-> "all attempts failed", attempts |-> maxAttempts, wraps |-> lastErr]

InitStep ==
    /\ BaseIdle
    /\ ConvIdle
    /\ StreamIdle
    /\ InclIdle
    /\ tStep \in ShellSteps
    /\ tpc = "prepare"
    /\ tCmd = <<>>
    /\ tAttempt = 0
    /\ tLastErr = [msg |-> "nil"]
    /\ tErrs = <<>>
    /\ tDirs = <<>>
    /\ tRet = [msg |-> "none"]

\* RunStep up to the execution: the command, its directory and its context
StepPrepare ==
    /\ tpc = "prepare"
    /\ UNCHANGED otherThanStep
    /\ tCmd' = [Dir |-> PreparedDir(tStep, JobWorkdir), Ctx |-> PreparedCtx(tStep)]
    /\ tAttempt' = 1
    /\ tpc' = IF UsesRetry(tStep) THEN "retry" ELSE "exec"
    /\ UNCHANGED <<tStep, tLastErr, tErrs, tDirs, tRet>>

\* the plain executeCommand(cmd, step.Name)
StepExec ==
    /\ tpc = "exec"
    /\ UNCHANGED otherThanStep
    /\ tDirs' = Append(tDirs, tCmd.Dir)
    /\ \E code \in {0} \cup FailCodes :
          IF code = 0
          THEN /\ tRet' = NilError
               /\ UNCHANGED tErrs
          ELSE /\ tRet' = CommandError(1, code)
               /\ tErrs' = Append(tErrs, CommandError(1, code))
    /\ tpc' = "returned"
    /\ UNCHANGED <<tStep, tCmd, tAttempt, tLastErr>>

\* one pass of executeWithRetry's loop: the clone of the command, its run,
\* and the return after the pass that succeeds or is the last
StepRetryAttempt ==
    /\ tpc = "retry"
    /\ UNCHANGED otherThanStep
    /\ tAttempt <= EffectiveMaxAttempts(tStep)
    /\ LET retryCmd == [Dir |-> tCmd.Dir, Ctx |-> CloneCtx(tCmd.Ctx)]
       IN  tDirs' = Append(tDirs, retryCmd.Dir)
    /\ \E code \in {0} \cup FailCodes :
          IF code = 0
          THEN /\ tRet' = NilError
               /\ tpc' = "returned"
               /\ UNCHANGED <<tErrs, tLastErr, tAttempt>>
          ELSE LET err == CommandError(tAttempt, code)
                   last == RecordErr(tLastErr, err)
               IN  /\ tErrs' = Append(tErrs, err)
                   /\ tLastErr' = last
                   /\ tAttempt' = tAttempt + 1
                   /\ IF tAttempt + 1 <= EffectiveMaxAttempts(tStep)
                      THEN /\ tpc' = "retry"
                           /\ UNCHANGED tRet
                      ELSE /\ tpc' = "returned"
                           /\ tRet' = RetryError(EffectiveMaxAttempts(tStep), last)
    /\ UNCHANGED <<tStep, tCmd>>

NextStep ==
    \/ StepPrepare
    \/ StepExec
    \/ StepRetryAttempt

SpecStep == InitStep /\ [][NextStep]_vars

(* ================== properties of RunStep's command ==================== *)
RetryFailed == tpc = "returned" /\ UsesRetry(tStep) /\ tRet.msg # "nil"

\* C34: when every attempt of a retried step fails, the error returned wraps
\* the error of the last attempt and states the number of attempts made
C34_WrapsLastAttempt ==
    RetryFailed =>
        /\ tRet.msg = "all attempts failed"
        /\ tRet.wraps = tErrs[Len(tErrs)]
        /\ tRet.wraps.attempt = Len(tDirs)
        /\ tRet.attempts = Len(tDirs)
        /\ Len(tErrs) = Len(tDirs)

\* C34 witness: three attempts failed, the first and the last with different
\* exit statuses, and the error of the third is the one wrapped
C34_Witness ==
    /\ RetryFailed
    /\ Len(tErrs) = 3
    /\ tErrs[1].exit # tErrs[3].exit
    /\ tRet.wraps = tErrs[3]
    /\ tRet.attempts = 3

\* C37: every subprocess of a shell-command step runs in the job working
\* directory joined with the step's override when one is set, and in the job
\* working directory otherwise, with or without a timeout or a retry policy
C37_WorkingDirectory ==
    \A k \in 1..Len(tDirs) : tDirs[k] = InitialDir(tStep, JobWorkdir)

\* the directory the subprocesses run in: the override counts only for a
\* step without a timeout
DirAsCoded ==
    \A k \in 1..Len(tDirs) :
        tDirs[k] = IF tStep.TimeoutMin > 0 THEN JobWorkdir ELSE InitialDir(tStep, JobWorkdir)


(* ================ the GitLab parser: include directives ================ *)
\* most entries of an include list
MaxIncludes == 2

IncludePaths == {"a.yml", "b.yml"}

\* the parser value: parsers.NewGitlabParser() or the literal &GitlabParser{}
ParserBuilds == {"NewGitlabParser", "literal"}

\* includeCache of the parser value: made by NewGitlabParser, nil otherwise
NewCache(built) == [made |-> built = "NewGitlabParser", paths |-> {}]

InitInclude ==
    /\ BaseIdle
    /\ ConvIdle
    /\ StreamIdle
    /\ StepIdle
    /\ iBuilt \in ParserBuilds
    /\ iCache = NewCache(iBuilt)
    /\ iFiles \in [IncludePaths -> {"missing", "invalid", "valid"}]
    /\ iIncludes \in SeqsOf(IncludePaths, 0, MaxIncludes)
    /\ iNext = 1
    /\ iMerged = <<>>
    /\ ipc = "includes"
    /\ iRet = "running"

\* includeFile on the next entry: a cached file is merged; a file that
\* cannot be read is passed over; a file that does not parse is an error; a
\* file that parses is stored in the cache, which panics on a nil map, and
\* merged
IncludeFile ==
    /\ ipc = "includes"
    /\ UNCHANGED otherThanIncl
    /\ iNext <= Len(iIncludes)
    /\ LET path == iIncludes[iNext]
       IN  IF path \in iCache.paths
           THEN /\ iMerged' = Append(iMerged, path)
                /\ iNext' = iNext + 1
                /\ UNCHANGED <<iCache, ipc, iRet>>
           ELSE CASE iFiles[path] = "missing" ->
                       /\ iNext' = iNext + 1
                       /\ UNCHANGED <<iCache, iMerged, ipc, iRet>>
                  [] iFiles[path] = "invalid" ->
                       /\ iRet' = "error"
                       /\ ipc' = "returned"
                       /\ UNCHANGED <<iCache, iMerged, iNext>>
                  [] OTHER ->
                       IF iCache.made
                       THEN /\ iCache' = [iCache EXCEPT !.paths = @ \cup {path}]
                            /\ iMerged' = Append(iMerged, path)
                            /\ iNext' = iNext + 1
                            /\ UNCHANGED <<ipc, iRet>>
                       ELSE /\ iRet' = "panic"
                            /\ ipc' = "crashed"
                            /\ UNCHANGED <<iCache, iMerged, iNext>>
    /\ UNCHANGED <<iBuilt, iFiles, iIncludes>>

\* processIncludes returns nil after its last entry
IncludeEnd ==
    /\ ipc = "includes"
    /\ UNCHANGED otherThanIncl
    /\ iNext > Len(iIncludes)
    /\ iRet' = "nil"
    /\ ipc' = "returned"
    /\ UNCHANGED <<iBuilt, iCache, iFiles, iIncludes, iNext, iMerged>>

NextInclude ==
    \/ IncludeFile
    \/ IncludeEnd

SpecInclude == InitInclude /\ [][NextInclude]_vars

(* =================== properties of the includes ======================== *)
\* the entries includeFile has been called on and has returned nil for
Included == SubSeq(iIncludes, 1, iNext - 1)
ValidOnly(paths) == SelectSeq(paths, LAMBDA p : iFiles[p] = "valid")

\* C39: with a parser value built without NewGitlabParser, processing the
\* includes never crashes: it ends with nil or an error value, every entry
\* passed whose file exists and parses has been merged into the pipeline,
\* and nothing is written to a cache that was never made
C39_IncludeNeverCrashes ==
    iBuilt = "literal" =>
        /\ iRet # "panic"
        /\ iMerged = ValidOnly(Included)
        /\ iCache.paths # {} => iCache.made

\* how the includes end: with the parser of NewGitlabParser never in a
\* crash and with every readable, well-formed file merged; with the literal
\* parser in a crash exactly at the first entry whose file exists and
\* parses, so that nothing is ever merged
IncludeAsCoded ==
    /\ iBuilt = "NewGitlabParser" =>
          /\ iRet # "panic"
          /\ iMerged = ValidOnly(Included)
    /\ iRet = "panic" =>
          /\ iBuilt = "literal"
          /\ iFiles[iIncludes[iNext]] = "valid"
    /\ iBuilt = "literal" =>
          /\ iMerged = <<>>
          /\ ipc = "returned" =>
                (iRet = "nil" <=> \A k \in 1..Len(iIncludes) : iFiles[iIncludes[k]] = "missing")

====
